---- MODULE Spec2Model ----
(***************************************************************************)
(* Order-lifecycle reconciliation of XtExchange                            *)
(* (src/hummingbot/connector/exchange/xt/xt_exchange.py).                  *)
(*                                                                         *)
(* The connector runs on one asyncio event loop: every flow (a submit, a   *)
(* cancel, cancel_all, the two status subtasks) is a coroutine, and one    *)
(* action below is the code a coroutine runs between two suspension        *)
(* points (an await that really suspends).  `await x.get_exchange_order_id *)
(* ()` suspends only while the exchange id of x is not assigned.           *)
(*                                                                         *)
(* Amounts are integers (multiples of the smallest unit the exchange       *)
(* accepts); prices do not influence any transition and are left out.      *)
(***************************************************************************)
EXTENDS Integers, Sequences, FiniteSets, TLC

\* ------------------------------------------------------------------ bounds
MaxOrders == 3          \* client order ids 1..MaxOrders
MaxSubmits == 2         \* buy()/sell() calls in one behaviour
BaseStep == 2           \* min_base_amount_increment of the pair
MinOrderSize == 3       \* min_order_size of the pair
MaxQuanta == 2          \* a caller asks for at most MaxQuanta * BaseStep

Ids == 1..MaxOrders
RawAmounts == (BaseStep + 1)..(MaxQuanta * BaseStep)
Pairs == {"P1", "P2"}                    \* P2 has no trading rule
OrderTypes == {"LIMIT", "MARKET"}         \* one limit-family type, one outside it
EventKinds == {"Created", "Fill", "Completed", "Cancelled", "Failure"}

VARIABLES
    in_flight_orders,     \* keys of self._in_flight_orders (client order ids)
    order,                \* the XtInFlightOrder object of each client order id
    trading_rules,        \* pairs that have an entry in self._trading_rules
    saved_states,         \* the persisted mapping last given to restore
    events,               \* events triggered so far, per client order id
    create_task,          \* the _create_order coroutine of each client order id
    cancel_task,          \* the _execute_cancel coroutine started by cancel()
    cancel_all_task,      \* the cancel_all coroutine
    order_status_task,    \* the _update_order_status coroutine of the wake
    trade_status_task,    \* the _update_trade_status coroutine of the wake
    remote,               \* the exchange: status and trades of each order
    noop_records,         \* a record was applied with a zero delta (history)
    market_configs,       \* the response last received by _update_trading_rules
    rules_loop,           \* the _trading_rules_polling_loop task
    status_loop,          \* the _status_polling_loop task and self._poll_notifier
    subtask,              \* the three coroutines gathered by the current wake
    balances_task,        \* locals of _update_balances: names before, response
    account_balances,     \* keys of self._account_balances
    account_available_balances, \* keys of self._account_available_balances
    network               \* self._trading_required, the four task handles, the
                          \* user-stream tasks and how stop_network last ended

\* The state of the two polling loops and of the balance maps.
loop_vars == <<market_configs, rules_loop, status_loop, subtask, balances_task,
               account_balances, account_available_balances, network>>

vars == <<in_flight_orders, order, trading_rules, loop_vars, saved_states, events, create_task,
          cancel_task, cancel_all_task, order_status_task, trade_status_task,
          remote, noop_records>>

\* ------------------------------------------------------------- arithmetic
RECURSIVE SumSeq(_)
SumSeq(s) == IF s = <<>> THEN 0 ELSE Head(s) + SumSeq(Tail(s))

Min(S) == CHOOSE x \in S : \A y \in S : x <= y

\* The exchange order id the remote assigns to client order i, as the string
\* str(order_result["data"]["id"]); 0 stands for None.
ExchangeId(i) == 100 + i

\* ------------------------------------------------------------------ events
Emit(ev, i, kind, amt) ==
    [ev EXCEPT ![i] = Append(@, [kind |-> kind, amt |-> amt])]

Count(i, kind) == Cardinality({k \in DOMAIN events[i] : events[i][k].kind = kind})

RECURSIVE FillSum(_)
FillSum(s) ==
    IF s = <<>> THEN 0
    ELSE (IF Head(s).kind = "Fill" THEN Head(s).amt ELSE 0) + FillSum(Tail(s))

\* ------------------------------------------------------- XtInFlightOrder
NoOrder ==
    [exchange_order_id |-> 0, trading_pair |-> "", amount |-> 0,
     last_state |-> "NONE", executed_amount_base |-> 0, trade_id_set |-> {}]

\* The constructor called by start_tracking_order.
XtInFlightOrder(exchange_order_id, trading_pair, amount) ==
    [exchange_order_id |-> exchange_order_id, trading_pair |-> trading_pair,
     amount |-> amount, last_state |-> "PENDING_CREATE",
     executed_amount_base |-> 0, trade_id_set |-> {}]

is_done(o) == o.last_state = "FILLED"
is_cancelled(o) == o.last_state = "CANCELLED"
is_failure(o) == o.last_state = "FAILED"

\* update_exchange_order_id: binds the id and signals the waiters.
update_exchange_order_id(o, exchange_order_id) ==
    [o EXCEPT !.exchange_order_id = exchange_order_id, !.last_state = "OPEN"]

\* CONSTANTS.ORDER_STATUS: remote status -> last_state.
ORDER_STATUS(status) ==
    CASE status = "open" -> "OPEN"
      [] status = "partially-filled" -> "PARTIALLY_FILLED"
      [] status = "filled" -> "FILLED"
      [] status = "cancelled" -> "CANCELLED"
      [] status = "failed" -> "FAILED"

\* update_with_order_status: delta of the cumulative executed amount.
update_with_order_status(o, order_msg) ==
    LET delta == order_msg.completeNumber - o.executed_amount_base IN
    IF delta <= 0
    THEN [order |-> o, delta |-> 0]
    ELSE [order |-> [o EXCEPT !.executed_amount_base = order_msg.completeNumber],
          delta |-> delta]

\* update_with_trade_status: a trade id is applied once.
update_with_trade_status(o, trade_msg) ==
    IF trade_msg.id \in o.trade_id_set
    THEN [order |-> o, delta |-> 0]
    ELSE [order |-> [o EXCEPT !.executed_amount_base = @ + trade_msg.amount,
                              !.trade_id_set = @ \cup {trade_msg.id}],
          delta |-> trade_msg.amount]

\* Mutant: an order is tracked under a provisional exchange id.
start_tracking_order_provisional(reg, order_id, exchange_order_id, trading_pair, amount) ==
    [ifo |-> reg.ifo \cup {order_id},
     order |-> [reg.order EXCEPT ![order_id] =
                   XtInFlightOrder(order_id, trading_pair, amount)]]

\* ------------------------------------------------------------ the registry
start_tracking_order(reg, order_id, exchange_order_id, trading_pair, amount) ==
    [ifo |-> reg.ifo \cup {order_id},
     order |-> [reg.order EXCEPT ![order_id] =
                   XtInFlightOrder(exchange_order_id, trading_pair, amount)]]

stop_tracking_order(ifo, order_id) == ifo \ {order_id}

\* ------------------------------------------------------------ quantization
get_order_size_quantum(trading_pair) == BaseStep

\* ExchangeBase.quantize_order_amount: floor to the quantum.
quantize_order_amount(trading_pair, amount) ==
    (amount \div get_order_size_quantum(trading_pair))
        * get_order_size_quantum(trading_pair)

is_limit_type(order_type) == order_type \in {"LIMIT", "LIMIT_MAKER"}

\* ------------------------------------------------------------------ Init
IdleCreate == [trading_pair |-> "", amount |-> 0, order_type |-> "",
               pc |-> "none", called |-> FALSE]
IdleStatusTask == [pc |-> "idle", wait_on |-> 0, wait_size |-> 0,
                   requested |-> {}, msgs |-> <<>>, responses |-> <<>>,
                   ignored |-> <<>>, chunks |-> <<>>]
IdleCancelAll == [pc |-> "idle", wait_on |-> 0, wait_size |-> 0,
                  tracked_orders |-> {}, todo |-> {}, open_resp |-> {},
                  fetched |-> FALSE, results |-> <<>>]

\* The three coroutines one wake of the status loop gathers.
SubtaskNames == {"balances", "trades", "orders"}

NoResponse == [kind |-> "none", entries |-> <<>>]
NoSubtasks == [n \in SubtaskNames |-> "none"]
NoBalancesTask == [local_asset_names |-> {}, account_info |-> NoResponse]

\* Time in half seconds: POLL_INTERVAL = 1.0 is two units, and the clock of
\* a run calls tick with timestamps up to MaxTimestamp.
POLL_INTERVAL == 2
MaxTimestamp == 4
Timestamps == 1..MaxTimestamp

\* int(timestamp / self.POLL_INTERVAL)
current_tick(timestamp) == timestamp \div POLL_INTERVAL

\* The attributes that hold the background tasks, and the two tasks of the
\* user stream.
TaskNames == {"status_polling_task", "trading_rules_polling_task",
              "user_stream_tracker_task", "user_stream_event_listener_task"}
UserStreamTasks == {"user_stream_tracker_task", "user_stream_event_listener_task"}

\* __init__ assigns None to three of the four attributes;
\* self._user_stream_tracker_task is assigned by start_network only.
NetworkAfterInit(trading_required) ==
    [trading_required |-> trading_required,
     handle |-> [t \in TaskNames |->
                    IF t = "user_stream_tracker_task" THEN "unset" ELSE "None"],
     user_stream |-> [t \in UserStreamTasks |-> "none"],
     stop_network |-> "none"]

\* The body of stop_network on the attributes.  The status and rules handles
\* are cleared first.  The read of self._user_stream_tracker_task then raises
\* AttributeError if the attribute was never assigned, and the rest is not
\* reached; otherwise the two user-stream tasks are cancelled and their
\* handles cleared.
stop_network(net) ==
    IF net.handle["user_stream_tracker_task"] = "unset"
    THEN [net EXCEPT !.handle["status_polling_task"] = "None",
                     !.handle["trading_rules_polling_task"] = "None",
                     !.stop_network = "AttributeError"]
    ELSE [net EXCEPT !.handle = [t \in TaskNames |-> "None"],
                     !.user_stream =
                         [t \in UserStreamTasks |->
                             IF net.handle[t] = "task" THEN "cancelled"
                             ELSE net.user_stream[t]],
                     !.stop_network = "returned"]

\* Neither loop is started by the constructor; the notifier is not set and
\* the balance maps are empty.
InitLoops ==
    /\ network = NetworkAfterInit(TRUE)
    /\ market_configs = NoResponse
    /\ rules_loop = [pc |-> "none"]
    /\ status_loop = [pc |-> "none", poll_notifier |-> FALSE,
                      last_timestamp |-> 0]
    /\ subtask = NoSubtasks
    /\ balances_task = NoBalancesTask
    /\ account_balances = {}
    /\ account_available_balances = {}

Init ==
    /\ in_flight_orders = {}
    /\ order = [i \in Ids |-> NoOrder]
    /\ trading_rules = {"P1"}
    /\ saved_states = <<>>
    /\ events = [i \in Ids |-> <<>>]
    /\ create_task = [i \in Ids |-> IdleCreate]
    /\ cancel_task = [pc |-> "idle", order_id |-> 0]
    /\ cancel_all_task = IdleCancelAll
    /\ order_status_task = IdleStatusTask
    /\ trade_status_task = IdleStatusTask
    /\ remote = [i \in Ids |-> [status |-> "none", trades |-> <<>>]]
    /\ noop_records = FALSE
    /\ InitLoops

\* ------------------------------------------------------------------ submit
\* buy()/sell(): a fresh client order id, and the _create_order coroutine is
\* scheduled; ids are handed out in increasing order.
Submit(i, trading_pair, amount, order_type) ==
    /\ i <= MaxSubmits
    /\ create_task[i].pc = "none"
    /\ \A j \in Ids : j < i => create_task[j].pc # "none"
    /\ create_task' = [create_task EXCEPT ![i] =
           [pc |-> "scheduled", trading_pair |-> trading_pair,
            amount |-> amount, order_type |-> order_type, called |-> FALSE]]
    /\ UNCHANGED <<in_flight_orders, order, trading_rules, loop_vars, saved_states, events, cancel_task,
                   cancel_all_task, order_status_task, trade_status_task,
                   remote, noop_records>>

\* _create_order up to its await of the create request.  The event loop starts
\* scheduled coroutines in the order they were scheduled.
CreateOrderBegin(i) ==
    LET t == create_task[i]
        amount == quantize_order_amount(t.trading_pair, t.amount)
        reg == start_tracking_order([ifo |-> in_flight_orders, order |-> order],
                                    i, 0, t.trading_pair, amount)
    IN
    /\ t.pc = "scheduled"
    /\ \A j \in Ids : j < i => create_task[j].pc # "scheduled"
    /\ IF ~is_limit_type(t.order_type)
       THEN \* raise Exception("Unsupported order type"), outside the try
            /\ create_task' = [create_task EXCEPT ![i].pc = "raised"]
            /\ UNCHANGED <<network, in_flight_orders, order, events>>
       ELSE IF t.trading_pair \notin trading_rules
       THEN \* KeyError of self._trading_rules[trading_pair], outside the try
            /\ create_task' = [create_task EXCEPT ![i].pc = "raised"]
            /\ UNCHANGED <<network, in_flight_orders, order, events>>
       ELSE IF amount < MinOrderSize
       THEN \* ValueError inside the try: the except clause
            /\ create_task' = [create_task EXCEPT ![i].pc = "failed",
                                                  ![i].amount = amount]
            /\ in_flight_orders' = stop_tracking_order(in_flight_orders, i)
            /\ events' = Emit(events, i, "Failure", 0)
            /\ UNCHANGED order
       ELSE /\ create_task' = [create_task EXCEPT ![i].pc = "inflight",
                                                  ![i].amount = amount,
                                                  ![i].called = TRUE]
            /\ in_flight_orders' = reg.ifo
            /\ order' = reg.order
            /\ UNCHANGED events
    /\ UNCHANGED <<trading_rules, loop_vars, saved_states, cancel_task, cancel_all_task,
                   order_status_task, trade_status_task, remote,
                   noop_records>>

\* Mutant: the Created event is emitted and the id of the response is dropped.
CreateOrderResume_unbound(i, outcome) ==
    LET t == create_task[i] IN
    /\ t.pc = "inflight"
    /\ IF outcome = "ok"
       THEN /\ events' = Emit(events, i, "Created", 0)
            /\ create_task' = [create_task EXCEPT ![i].pc = "created"]
            /\ UNCHANGED <<network, in_flight_orders, order>>
       ELSE /\ in_flight_orders' = stop_tracking_order(in_flight_orders, i)
            /\ events' = Emit(events, i, "Failure", 0)
            /\ create_task' = [create_task EXCEPT ![i].pc = "failed"]
            /\ UNCHANGED order
    /\ remote' = IF outcome \in {"ok", "malformed"}
                 THEN [remote EXCEPT ![i].status = "open"]
                 ELSE remote
    /\ UNCHANGED <<trading_rules, loop_vars, saved_states, cancel_task, cancel_all_task,
                   order_status_task, trade_status_task,
                   noop_records>>

\* The create request returns.  "ok": the exchange accepted the order and the
\* response carries its id; "malformed": accepted, but the response has no
\* data.id; "error": _api_request raised and the exchange has no such order.
CreateOrderResume(i, outcome) ==
    LET t == create_task[i] IN
    /\ t.pc = "inflight"
    /\ IF outcome = "ok"
       THEN /\ order' = IF i \in in_flight_orders
                        THEN [order EXCEPT ![i] =
                                 update_exchange_order_id(@, ExchangeId(i))]
                        ELSE order
            /\ events' = Emit(events, i, "Created", 0)
            /\ create_task' = [create_task EXCEPT ![i].pc = "created"]
            /\ UNCHANGED in_flight_orders
       ELSE /\ in_flight_orders' = stop_tracking_order(in_flight_orders, i)
            /\ events' = Emit(events, i, "Failure", 0)
            /\ create_task' = [create_task EXCEPT ![i].pc = "failed"]
            /\ UNCHANGED order
    /\ remote' = IF outcome \in {"ok", "malformed"}
                 THEN [remote EXCEPT ![i].status = "open"]
                 ELSE remote
    /\ UNCHANGED <<trading_rules, loop_vars, saved_states, cancel_task, cancel_all_task,
                   order_status_task, trade_status_task,
                   noop_records>>

\* The coroutine is cancelled while it awaits the create request:
\* `except asyncio.CancelledError: raise`.
CreateOrderInterrupt(i) ==
    /\ create_task[i].pc = "inflight"
    /\ create_task' = [create_task EXCEPT ![i].pc = "interrupted"]
    /\ UNCHANGED <<in_flight_orders, order, trading_rules, loop_vars, saved_states, events, cancel_task,
                   cancel_all_task, order_status_task, trade_status_task,
                   remote, noop_records>>

\* ------------------------------------------------------------ the exchange
IsOpenRemote(i) == remote[i].status \in {"open", "partially-filled"}

\* The exchange matches amt of order i: one more trade.
RemoteFill(i, amt) ==
    /\ IsOpenRemote(i)
    /\ amt > 0
    /\ SumSeq(remote[i].trades) + amt <= order[i].amount
    /\ remote' = [remote EXCEPT
           ![i].trades = Append(@, amt),
           ![i].status = IF SumSeq(remote[i].trades) + amt = order[i].amount
                         THEN "filled" ELSE "partially-filled"]
    /\ UNCHANGED <<in_flight_orders, order, trading_rules, loop_vars, saved_states, events, create_task,
                   cancel_task, cancel_all_task, order_status_task,
                   trade_status_task,
                   noop_records>>

\* The exchange drops an order that has no trade yet.
RemoteFail(i) ==
    /\ remote[i].status = "open"
    /\ remote' = [remote EXCEPT ![i].status = "failed"]
    /\ UNCHANGED <<in_flight_orders, order, trading_rules, loop_vars, saved_states, events, create_task,
                   cancel_task, cancel_all_task, order_status_task,
                   trade_status_task,
                   noop_records>>

\* What a cancel request does on the exchange: an open order is cancelled when
\* the request is accepted; in any other case nothing changes (the response
\* is an error or a code outside {200, 121, 122}).
RemoteCancel(rem, i, accepted) ==
    IF accepted /\ rem[i].status \in {"open", "partially-filled"}
    THEN [rem EXCEPT ![i].status = "cancelled"]
    ELSE rem

\* ------------------------------------------------------------------ cancel
IdleCancel == [pc |-> "idle", order_id |-> 0]

\* cancel() and _execute_cancel up to its first suspension.  One coroutine
\* started by cancel() is followed at a time, and none while cancel_all runs.
ExecuteCancelBegin(i) ==
    /\ cancel_task.pc = "idle"
    /\ cancel_all_task.pc \in {"idle", "done"}
    /\ create_task[i].pc # "none"
    /\ cancel_task' =
           IF i \notin in_flight_orders THEN IdleCancel      \* ValueError, logged
           ELSE IF order[i].exchange_order_id = 0
           THEN [pc |-> "wait_id", order_id |-> i]
           ELSE [pc |-> "sent", order_id |-> i]
    /\ UNCHANGED <<in_flight_orders, order, trading_rules, loop_vars, saved_states, events, create_task,
                   cancel_all_task, order_status_task, trade_status_task,
                   remote, noop_records>>

\* get_exchange_order_id returns: the cancel request is sent.
ExecuteCancelGotId ==
    /\ cancel_task.pc = "wait_id"
    /\ order[cancel_task.order_id].exchange_order_id # 0
    /\ cancel_task' = [cancel_task EXCEPT !.pc = "sent"]
    /\ UNCHANGED <<in_flight_orders, order, trading_rules, loop_vars, saved_states, events, create_task,
                   cancel_all_task, order_status_task, trade_status_task,
                   remote, noop_records>>

\* Mutant: the wait for the exchange id has no timeout.
ExecuteCancelWaitExpired_never ==
    /\ FALSE
    /\ UNCHANGED vars

\* get_exchange_order_id gives up: the wait for the assignment is bounded, and
\* its expiry is an exception that _execute_cancel logs.
ExecuteCancelWaitExpired ==
    /\ cancel_task.pc = "wait_id"
    /\ order[cancel_task.order_id].exchange_order_id = 0
    /\ cancel_task' = IdleCancel
    /\ UNCHANGED <<in_flight_orders, order, trading_rules, loop_vars, saved_states, events, create_task,
                   cancel_all_task, order_status_task, trade_status_task,
                   remote, noop_records>>

\* Mutant: a rejected cancel request is taken as the end of the order.
ExecuteCancelResume_untracks(accepted) ==
    /\ cancel_task.pc = "sent"
    /\ cancel_task' = IdleCancel
    /\ remote' = RemoteCancel(remote, cancel_task.order_id, accepted)
    /\ in_flight_orders' = IF accepted THEN in_flight_orders
                           ELSE stop_tracking_order(in_flight_orders,
                                                    cancel_task.order_id)
    /\ events' = IF accepted THEN events
                 ELSE Emit(events, cancel_task.order_id, "Failure", 0)
    /\ UNCHANGED <<order, trading_rules, loop_vars, saved_states, create_task,
                   cancel_all_task, order_status_task, trade_status_task,
                   noop_records>>

\* The cancel request returns; whatever the response, no local state changes.
ExecuteCancelResume(accepted) ==
    /\ cancel_task.pc = "sent"
    /\ cancel_task' = IdleCancel
    /\ remote' = RemoteCancel(remote, cancel_task.order_id, accepted)
    /\ UNCHANGED <<in_flight_orders, order, trading_rules, loop_vars, saved_states, events, create_task,
                   cancel_all_task, order_status_task, trade_status_task,
                   noop_records>>

\* --------------------------------------------------- processing of records
\* The state the record handlers read and write.
Local == [ifo |-> in_flight_orders, order |-> order, events |-> events,
          noop |-> noop_records]

\* [o for o in tracked_orders if exchange_order_id == o.exchange_order_id]
Matching(st, exchange_order_id) ==
    {j \in st.ifo : st.order[j].exchange_order_id = exchange_order_id}

\* Mutant: the completed order is not removed from the registry.
FillAndComplete_keeps_tracking(st, j, u) ==
    IF u.delta = 0
    THEN [st EXCEPT !.order[j] = u.order, !.noop = TRUE]
    ELSE LET filled == Emit(st.events, j, "Fill", u.delta) IN
         IF u.order.executed_amount_base >= u.order.amount
         THEN [st EXCEPT !.order[j] = [u.order EXCEPT !.last_state = "FILLED"],
                         !.events = Emit(filled, j, "Completed", 0)]
         ELSE [st EXCEPT !.order[j] = u.order, !.events = filled]

\* Mutant: the Completed event is triggered before the Fill event.
FillAndComplete_completed_first(st, j, u) ==
    IF u.delta = 0
    THEN [st EXCEPT !.order[j] = u.order, !.noop = TRUE]
    ELSE IF u.order.executed_amount_base >= u.order.amount
         THEN [st EXCEPT !.order[j] = [u.order EXCEPT !.last_state = "FILLED"],
                         !.events = Emit(Emit(st.events, j, "Completed", 0),
                                         j, "Fill", u.delta),
                         !.ifo = stop_tracking_order(@, j)]
         ELSE [st EXCEPT !.order[j] = u.order,
                         !.events = Emit(st.events, j, "Fill", u.delta)]

\* The tail shared by both trade handlers: Fill, then Completed when the
\* executed amount has reached the requested amount.
FillAndComplete(st, j, u) ==
    IF u.delta = 0
    THEN [st EXCEPT !.order[j] = u.order, !.noop = TRUE]
    ELSE LET filled == Emit(st.events, j, "Fill", u.delta) IN
         IF u.order.executed_amount_base >= u.order.amount
         THEN [st EXCEPT !.order[j] = [u.order EXCEPT !.last_state = "FILLED"],
                         !.events = Emit(filled, j, "Completed", 0),
                         !.ifo = stop_tracking_order(@, j)]
         ELSE [st EXCEPT !.order[j] = u.order, !.events = filled]

process_trade_message_from_order_status(st, order_msg) ==
    LET found == Matching(st, order_msg.id) IN
    IF found = {} THEN st
    ELSE FillAndComplete(st, Min(found),
                         update_with_order_status(st.order[Min(found)], order_msg))

process_trade_message_from_trade_status(st, trade_msg) ==
    LET found == Matching(st, trade_msg.orderId) IN
    IF found = {} THEN st
    ELSE FillAndComplete(st, Min(found),
                         update_with_trade_status(st.order[Min(found)], trade_msg))

\* Mutant: every record that is not a cancellation goes through the trade
\* handler, whatever its status.
process_order_message_any_status(st, order_msg) ==
    LET found == Matching(st, order_msg.id) IN
    IF found = {} THEN st
    ELSE LET j == Min(found)
             o == [st.order[j] EXCEPT !.last_state = ORDER_STATUS(order_msg.status)]
             st1 == [st EXCEPT !.order[j] = o]
         IN
         IF is_cancelled(o)
         THEN [st1 EXCEPT !.events = Emit(@, j, "Cancelled", 0),
                          !.ifo = stop_tracking_order(@, j)]
         ELSE IF is_failure(o)
         THEN [st1 EXCEPT !.events = Emit(@, j, "Failure", 0),
                          !.ifo = stop_tracking_order(@, j)]
         ELSE process_trade_message_from_order_status(st1, order_msg)

\* Mutant: a failed order stays in the registry.
process_order_message_failure_stays(st, order_msg) ==
    LET found == Matching(st, order_msg.id) IN
    IF found = {} THEN st
    ELSE LET j == Min(found)
             o == [st.order[j] EXCEPT !.last_state = ORDER_STATUS(order_msg.status)]
             st1 == [st EXCEPT !.order[j] = o]
         IN
         IF is_cancelled(o)
         THEN [st1 EXCEPT !.events = Emit(@, j, "Cancelled", 0),
                          !.ifo = stop_tracking_order(@, j)]
         ELSE IF is_done(o)
         THEN process_trade_message_from_order_status(st1, order_msg)
         ELSE IF is_failure(o)
         THEN [st1 EXCEPT !.events = Emit(@, j, "Failure", 0)]
         ELSE st1

\* Mutant: a record that matches no tracked order is taken as the failure of
\* the order that once had the id.
process_order_message_unmatched_fails(st, order_msg) ==
    LET found == Matching(st, order_msg.id) IN
    IF found = {}
    THEN LET i == CHOOSE i \in Ids : ExchangeId(i) = order_msg.id
         IN [st EXCEPT !.events = Emit(@, i, "Failure", 0)]
    ELSE LET j == Min(found)
             o == [st.order[j] EXCEPT !.last_state = ORDER_STATUS(order_msg.status)]
             st1 == [st EXCEPT !.order[j] = o]
         IN
         IF is_cancelled(o)
         THEN [st1 EXCEPT !.events = Emit(@, j, "Cancelled", 0),
                          !.ifo = stop_tracking_order(@, j)]
         ELSE IF is_done(o)
         THEN process_trade_message_from_order_status(st1, order_msg)
         ELSE IF is_failure(o)
         THEN [st1 EXCEPT !.events = Emit(@, j, "Failure", 0),
                          !.ifo = stop_tracking_order(@, j)]
         ELSE st1


process_order_message(st, order_msg) ==
    LET found == Matching(st, order_msg.id) IN
    IF found = {} THEN st
    ELSE LET j == Min(found)
             o == [st.order[j] EXCEPT !.last_state = ORDER_STATUS(order_msg.status)]
             st1 == [st EXCEPT !.order[j] = o]
         IN
         IF is_cancelled(o)
         THEN [st1 EXCEPT !.events = Emit(@, j, "Cancelled", 0),
                          !.ifo = stop_tracking_order(@, j)]
         ELSE IF is_done(o)
         THEN process_trade_message_from_order_status(st1, order_msg)
         ELSE IF is_failure(o)
         THEN [st1 EXCEPT !.events = Emit(@, j, "Failure", 0),
                          !.ifo = stop_tracking_order(@, j)]
         ELSE st1

RECURSIVE ProcessOrderMessages(_, _)
ProcessOrderMessages(st, msgs) ==
    IF msgs = <<>> THEN st
    ELSE ProcessOrderMessages(process_order_message(st, Head(msgs)), Tail(msgs))

RECURSIVE ProcessTradeMessages(_, _)
ProcessTradeMessages(st, msgs) ==
    IF msgs = <<>> THEN st
    ELSE ProcessTradeMessages(
             process_trade_message_from_trade_status(st, Head(msgs)), Tail(msgs))

\* ------------------------------------------------ responses of the exchange
RECURSIVE SeqOfSet(_)
SeqOfSet(S) == IF S = {} THEN <<>> ELSE <<Min(S)>> \o SeqOfSet(S \ {Min(S)})

RECURSIVE Concat(_)
Concat(ss) == IF ss = <<>> THEN <<>> ELSE Head(ss) \o Concat(Tail(ss))

\* The order-detail response for the requested exchange order ids.
OrderDetail(requested) ==
    LET ids == SeqOfSet({i \in Ids : ExchangeId(i) \in requested
                                      /\ remote[i].status # "none"})
    IN [k \in DOMAIN ids |->
           [id |-> ExchangeId(ids[k]), status |-> remote[ids[k]].status,
            completeNumber |-> SumSeq(remote[ids[k]].trades)]]

\* The trade-detail response: every trade in the look-back window.
TradesOf(i) ==
    [k \in DOMAIN remote[i].trades |->
        [orderId |-> ExchangeId(i), id |-> k, amount |-> remote[i].trades[k]]]

TradeDetail ==
    LET ids == SeqOfSet({i \in Ids : remote[i].status # "none"})
    IN Concat([k \in DOMAIN ids |-> TradesOf(ids[k])])

\* The open-order response: exchange ids of the orders still open.
OpenOrdersResponse == {ExchangeId(i) : i \in {j \in Ids : IsOpenRemote(j)}}

\* ------------------------------------------- waiting for exchange order ids
\* `for order in self._in_flight_orders.values(): await order.get_exchange_
\* order_id()`: the first tracked order at or after position `from` (the dict
\* iterates in insertion order, which is the order of the client ids) whose
\* exchange id is not assigned; 0 when there is none and the loop ends
\* without suspending.
WaitTarget(from) ==
    LET missing == {j \in in_flight_orders :
                       j >= from /\ order[j].exchange_order_id = 0}
    IN IF missing = {} THEN 0 ELSE Min(missing)

\* The dict iterator raises RuntimeError when it is advanced after the dict
\* changed size.
DictChangedSize(task) == Cardinality(in_flight_orders) # task.wait_size

ApplyLocal(st) ==
    /\ in_flight_orders' = st.ifo
    /\ order' = st.order
    /\ events' = st.events
    /\ noop_records' = st.noop

\* ------------------------------------------------------------- status loop
\* The first segment of _update_trade_status: the requests are issued.
UpdateTradeStatusBegin ==
    IF Cardinality(in_flight_orders) > 0
    THEN [IdleStatusTask EXCEPT !.pc = "fetching"]
    ELSE IdleStatusTask

\* self._trading_pairs: one batch of order-detail requests per trading pair
\* with tracked orders (no pair has more than batch_size orders).
trading_pairs == <<"P1", "P2">>

\* batch_size = 100, scaled to the number of orders of the model.
batch_size == 2

\* order_chunks: tp_orders[i:i+batch_size] for i in range(0, len, batch_size).
RECURSIVE order_chunks(_)
order_chunks(tp_orders) ==
    IF tp_orders = <<>> THEN <<>>
    ELSE IF Len(tp_orders) <= batch_size THEN <<tp_orders>>
    ELSE <<SubSeq(tp_orders, 1, batch_size)>>
             \o order_chunks(SubSeq(tp_orders, batch_size + 1, Len(tp_orders)))

\* `for trading_pair in self._trading_pairs`: the chunks of the tracked
\* orders of each pair, one request per chunk, in the order of the tasks.
RECURSIVE StatusChunks(_)
StatusChunks(pairs) ==
    IF pairs = <<>> THEN <<>>
    ELSE order_chunks(SeqOfSet({j \in in_flight_orders :
                                  order[j].trading_pair = Head(pairs)}))
             \o StatusChunks(Tail(pairs))

\* The tracked orders a sequence of chunks holds.
ChunkedOrders(chunks) ==
    UNION {{chunks[k][n] : n \in DOMAIN chunks[k]} : k \in DOMAIN chunks}

\* The first segment of _update_order_status: the wait for the exchange ids,
\* then the copy of the registry and the chunk requests.
UpdateOrderStatusFetch ==
    [IdleStatusTask EXCEPT
        !.pc = "fetching",
        !.requested = {order[j].exchange_order_id :
                          j \in ChunkedOrders(StatusChunks(trading_pairs))},
        !.chunks = StatusChunks(trading_pairs)]

UpdateOrderStatusBegin ==
    IF Cardinality(in_flight_orders) > 0
    THEN IF WaitTarget(1) = 0
         THEN UpdateOrderStatusFetch
         ELSE [IdleStatusTask EXCEPT !.pc = "wait_ids",
                                     !.wait_on = WaitTarget(1),
                                     !.wait_size = Cardinality(in_flight_orders)]
    ELSE IdleStatusTask

\* A wake of _status_polling_loop: safe_gather starts the subtasks back to
\* back, each running to its first suspension.
StatusPollingWake ==
    /\ order_status_task.pc = "idle"
    /\ trade_status_task.pc = "idle"
    /\ trade_status_task' = UpdateTradeStatusBegin
    /\ order_status_task' = UpdateOrderStatusBegin
    /\ UNCHANGED <<in_flight_orders, order, trading_rules, loop_vars, saved_states, events, create_task,
                   cancel_task, cancel_all_task, remote, noop_records>>

\* _update_order_status resumes from get_exchange_order_id.
UpdateOrderStatusGotId ==
    /\ order_status_task.pc = "wait_ids"
    /\ order[order_status_task.wait_on].exchange_order_id # 0
    /\ order_status_task' =
          IF DictChangedSize(order_status_task) THEN IdleStatusTask
          ELSE IF WaitTarget(order_status_task.wait_on + 1) # 0
          THEN [order_status_task EXCEPT
                   !.wait_on = WaitTarget(order_status_task.wait_on + 1)]
          ELSE UpdateOrderStatusFetch
    /\ UNCHANGED <<in_flight_orders, order, trading_rules, loop_vars, saved_states, events, create_task,
                   cancel_task, cancel_all_task, trade_status_task, remote,
                   noop_records>>

\* Mutant: the wait of _update_order_status for an exchange id has no timeout.
UpdateOrderStatusWaitExpired_never ==
    /\ FALSE
    /\ UNCHANGED vars

\* The wait of _update_order_status expires: the exception ends the subtask.
UpdateOrderStatusWaitExpired ==
    /\ order_status_task.pc = "wait_ids"
    /\ order[order_status_task.wait_on].exchange_order_id = 0
    /\ order_status_task' = IdleStatusTask
    /\ UNCHANGED <<in_flight_orders, order, trading_rules, loop_vars, saved_states, events, create_task,
                   cancel_task, cancel_all_task, trade_status_task, remote,
                   noop_records>>

\* The order-detail responses arrive; the records are processed unless the
\* handler has to wait for an exchange id first.
UpdateOrderStatusResponse(ok) ==
    LET msgs == OrderDetail(order_status_task.requested) IN
    /\ order_status_task.pc = "fetching"
    /\ IF ~ok \/ msgs = <<>>
       THEN /\ order_status_task' = IdleStatusTask
            /\ UNCHANGED <<network, in_flight_orders, order, events, noop_records>>
       ELSE IF WaitTarget(1) = 0
       THEN /\ order_status_task' = IdleStatusTask
            /\ ApplyLocal(ProcessOrderMessages(Local, msgs))
       ELSE /\ order_status_task' =
                  [IdleStatusTask EXCEPT
                      !.pc = "blocked", !.msgs = msgs,
                      !.wait_on = WaitTarget(1),
                      !.wait_size = Cardinality(in_flight_orders)]
            /\ UNCHANGED <<network, in_flight_orders, order, events, noop_records>>
    /\ UNCHANGED <<trading_rules, loop_vars, saved_states, create_task, cancel_task, cancel_all_task,
                   trade_status_task, remote>>

\* _process_order_message resumes from get_exchange_order_id.
ProcessOrderMessageGotId ==
    /\ order_status_task.pc = "blocked"
    /\ order[order_status_task.wait_on].exchange_order_id # 0
    /\ IF DictChangedSize(order_status_task)
       THEN /\ order_status_task' = IdleStatusTask
            /\ UNCHANGED <<network, in_flight_orders, order, events, noop_records>>
       ELSE IF WaitTarget(order_status_task.wait_on + 1) # 0
       THEN /\ order_status_task' =
                  [order_status_task EXCEPT
                      !.wait_on = WaitTarget(order_status_task.wait_on + 1)]
            /\ UNCHANGED <<network, in_flight_orders, order, events, noop_records>>
       ELSE /\ order_status_task' = IdleStatusTask
            /\ ApplyLocal(ProcessOrderMessages(Local, order_status_task.msgs))
    /\ UNCHANGED <<trading_rules, loop_vars, saved_states, create_task, cancel_task, cancel_all_task,
                   trade_status_task, remote>>

\* The wait of _process_order_message expires: no record is applied.
ProcessOrderMessageWaitExpired ==
    /\ order_status_task.pc = "blocked"
    /\ order[order_status_task.wait_on].exchange_order_id = 0
    /\ order_status_task' = IdleStatusTask
    /\ UNCHANGED <<in_flight_orders, order, trading_rules, loop_vars, saved_states, events, create_task,
                   cancel_task, cancel_all_task, trade_status_task, remote,
                   noop_records>>

\* The trade-detail response arrives.
UpdateTradeStatusResponse(ok) ==
    LET msgs == TradeDetail IN
    /\ trade_status_task.pc = "fetching"
    /\ IF ~ok \/ msgs = <<>>
       THEN /\ trade_status_task' = IdleStatusTask
            /\ UNCHANGED <<network, in_flight_orders, order, events, noop_records>>
       ELSE IF WaitTarget(1) = 0
       THEN /\ trade_status_task' = IdleStatusTask
            /\ ApplyLocal(ProcessTradeMessages(Local, msgs))
       ELSE /\ trade_status_task' =
                  [IdleStatusTask EXCEPT
                      !.pc = "blocked", !.msgs = msgs,
                      !.wait_on = WaitTarget(1),
                      !.wait_size = Cardinality(in_flight_orders)]
            /\ UNCHANGED <<network, in_flight_orders, order, events, noop_records>>
    /\ UNCHANGED <<trading_rules, loop_vars, saved_states, create_task, cancel_task, cancel_all_task,
                   order_status_task, remote>>

\* _process_trade_message_from_trade_status resumes from get_exchange_order_id.
ProcessTradeMessageGotId ==
    /\ trade_status_task.pc = "blocked"
    /\ order[trade_status_task.wait_on].exchange_order_id # 0
    /\ IF DictChangedSize(trade_status_task)
       THEN /\ trade_status_task' = IdleStatusTask
            /\ UNCHANGED <<network, in_flight_orders, order, events, noop_records>>
       ELSE IF WaitTarget(trade_status_task.wait_on + 1) # 0
       THEN /\ trade_status_task' =
                  [trade_status_task EXCEPT
                      !.wait_on = WaitTarget(trade_status_task.wait_on + 1)]
            /\ UNCHANGED <<network, in_flight_orders, order, events, noop_records>>
       ELSE /\ trade_status_task' = IdleStatusTask
            /\ ApplyLocal(ProcessTradeMessages(Local, trade_status_task.msgs))
    /\ UNCHANGED <<trading_rules, loop_vars, saved_states, create_task, cancel_task, cancel_all_task,
                   order_status_task, remote>>

\* The wait of _process_trade_message_from_trade_status expires.
ProcessTradeMessageWaitExpired ==
    /\ trade_status_task.pc = "blocked"
    /\ order[trade_status_task.wait_on].exchange_order_id = 0
    /\ trade_status_task' = IdleStatusTask
    /\ UNCHANGED <<in_flight_orders, order, trading_rules, loop_vars, saved_states, events, create_task,
                   cancel_task, cancel_all_task, order_status_task, remote,
                   noop_records>>

\* -------------------------------------------------------------- cancel_all
\* The next _execute_cancel of cancel_all's loop, up to its suspension; with
\* no order left, the settle delay and the open-order request.
CancelAllNext(task) ==
    IF task.todo = {} THEN [task EXCEPT !.pc = "settling"]
    ELSE IF Min(task.todo) \notin in_flight_orders       \* ValueError, logged
    THEN [task EXCEPT !.pc = "pacing", !.todo = @ \ {Min(task.todo)}]
    ELSE IF order[Min(task.todo)].exchange_order_id = 0
    THEN [task EXCEPT !.pc = "wait_id", !.wait_on = Min(task.todo)]
    ELSE [task EXCEPT !.pc = "sent"]

\* cancel_all is called, with no cancel() under way: both copies of the
\* registry are taken.
CancelAllBegin ==
    /\ cancel_all_task.pc = "idle"
    /\ cancel_task.pc = "idle"
    /\ cancel_all_task' =
          CancelAllNext([IdleCancelAll EXCEPT
                            !.tracked_orders = in_flight_orders,
                            !.todo = in_flight_orders])
    /\ UNCHANGED <<in_flight_orders, order, trading_rules, loop_vars, saved_states, events, create_task,
                   cancel_task, order_status_task, trade_status_task, remote,
                   noop_records>>

\* The pacing delay of 0.2s is over.
CancelAllPaced ==
    /\ cancel_all_task.pc = "pacing"
    /\ cancel_all_task' = CancelAllNext(cancel_all_task)
    /\ UNCHANGED <<in_flight_orders, order, trading_rules, loop_vars, saved_states, events, create_task,
                   cancel_task, order_status_task, trade_status_task, remote,
                   noop_records>>

\* _execute_cancel inside cancel_all resumes from get_exchange_order_id.
CancelAllGotId ==
    /\ cancel_all_task.pc = "wait_id"
    /\ order[cancel_all_task.wait_on].exchange_order_id # 0
    /\ cancel_all_task' = [cancel_all_task EXCEPT !.pc = "sent", !.wait_on = 0]
    /\ UNCHANGED <<in_flight_orders, order, trading_rules, loop_vars, saved_states, events, create_task,
                   cancel_task, order_status_task, trade_status_task, remote,
                   noop_records>>

\* The wait of _execute_cancel inside cancel_all expires: the exception is
\* logged there and cancel_all goes on to its pacing delay.
CancelAllWaitExpired ==
    /\ cancel_all_task.pc = "wait_id"
    /\ order[cancel_all_task.wait_on].exchange_order_id = 0
    /\ cancel_all_task' = [cancel_all_task EXCEPT
                              !.pc = "pacing", !.todo = @ \ {Min(@)},
                              !.wait_on = 0]
    /\ UNCHANGED <<in_flight_orders, order, trading_rules, loop_vars, saved_states, events, create_task,
                   cancel_task, order_status_task, trade_status_task, remote,
                   noop_records>>

\* The cancel request of cancel_all returns; the pacing delay starts.
CancelAllCancelResume(accepted) ==
    /\ cancel_all_task.pc = "sent"
    /\ remote' = RemoteCancel(remote, Min(cancel_all_task.todo), accepted)
    /\ cancel_all_task' = [cancel_all_task EXCEPT
                              !.pc = "pacing", !.todo = @ \ {Min(@)}]
    /\ UNCHANGED <<in_flight_orders, order, trading_rules, loop_vars, saved_states, events, create_task,
                   cancel_task, order_status_task, trade_status_task,
                   noop_records>>

\* get_open_orders' result: the tracked orders the response reports.
OpenOrders(open_resp) ==
    {j \in in_flight_orders : order[j].exchange_order_id \in open_resp}

\* Mutant: an order that is still open gets no entry in the result.
RECURSIVE Classify_skips_open(_, _, _)
Classify_skips_open(st, todo, open_orders) ==
    IF todo = <<>> THEN st
    ELSE LET cl_order_id == Head(todo) IN
         IF cl_order_id \notin open_orders
         THEN Classify_skips_open(
                  [st EXCEPT
                      !.results = Append(@, [id |-> cl_order_id, success |-> TRUE]),
                      !.events = Emit(@, cl_order_id, "Cancelled", 0),
                      !.ifo = stop_tracking_order(@, cl_order_id)],
                  Tail(todo), open_orders)
         ELSE Classify_skips_open(st, Tail(todo), open_orders)

\* The classification loop over the orders tracked when cancel_all began.
RECURSIVE Classify(_, _, _)
Classify(st, todo, open_orders) ==
    IF todo = <<>> THEN st
    ELSE LET cl_order_id == Head(todo) IN
         IF cl_order_id \notin open_orders
         THEN Classify(
                  [st EXCEPT
                      !.results = Append(@, [id |-> cl_order_id, success |-> TRUE]),
                      !.events = Emit(@, cl_order_id, "Cancelled", 0),
                      !.ifo = stop_tracking_order(@, cl_order_id)],
                  Tail(todo), open_orders)
         ELSE Classify(
                  [st EXCEPT
                      !.results = Append(@, [id |-> cl_order_id, success |-> FALSE])],
                  Tail(todo), open_orders)

CancelAllFinish(open_resp) ==
    LET st == Classify([ifo |-> in_flight_orders, events |-> events,
                        results |-> <<>>],
                       SeqOfSet(cancel_all_task.tracked_orders),
                       OpenOrders(open_resp))
    IN /\ in_flight_orders' = st.ifo
       /\ events' = st.events
       /\ cancel_all_task' = [cancel_all_task EXCEPT
              !.pc = "done", !.results = st.results, !.open_resp = open_resp,
              !.fetched = TRUE, !.wait_on = 0, !.wait_size = 0]

\* The open-order request made after the settle delay returns: an error ends
\* cancel_all in its except clause with the results collected so far (none).
CancelAllOpenOrdersResponse(ok) ==
    /\ cancel_all_task.pc = "settling"
    /\ IF ~ok
       THEN /\ cancel_all_task' = [cancel_all_task EXCEPT !.pc = "done"]
            /\ UNCHANGED <<network, in_flight_orders, events>>
       ELSE IF WaitTarget(1) = 0
       THEN CancelAllFinish(OpenOrdersResponse)
       ELSE /\ cancel_all_task' =
                  [cancel_all_task EXCEPT
                      !.pc = "wait_ids", !.open_resp = OpenOrdersResponse,
                      !.wait_on = WaitTarget(1),
                      !.wait_size = Cardinality(in_flight_orders)]
            /\ UNCHANGED <<network, in_flight_orders, events>>
    /\ UNCHANGED <<order, trading_rules, loop_vars, saved_states, create_task, cancel_task,
                   order_status_task, trade_status_task, remote,
                   noop_records>>

\* get_open_orders resumes from get_exchange_order_id.
GetOpenOrdersGotId ==
    /\ cancel_all_task.pc = "wait_ids"
    /\ order[cancel_all_task.wait_on].exchange_order_id # 0
    /\ IF DictChangedSize(cancel_all_task)
       THEN /\ cancel_all_task' = [cancel_all_task EXCEPT
                   !.pc = "done", !.wait_on = 0, !.wait_size = 0]
            /\ UNCHANGED <<network, in_flight_orders, events>>
       ELSE IF WaitTarget(cancel_all_task.wait_on + 1) # 0
       THEN /\ cancel_all_task' =
                  [cancel_all_task EXCEPT
                      !.wait_on = WaitTarget(cancel_all_task.wait_on + 1)]
            /\ UNCHANGED <<network, in_flight_orders, events>>
       ELSE CancelAllFinish(cancel_all_task.open_resp)
    /\ UNCHANGED <<order, trading_rules, loop_vars, saved_states, create_task, cancel_task,
                   order_status_task, trade_status_task, remote,
                   noop_records>>

\* The wait of get_open_orders expires: cancel_all catches the exception and
\* returns an empty list.
GetOpenOrdersWaitExpired ==
    /\ cancel_all_task.pc = "wait_ids"
    /\ order[cancel_all_task.wait_on].exchange_order_id = 0
    /\ cancel_all_task' = [cancel_all_task EXCEPT
                              !.pc = "done", !.wait_on = 0, !.wait_size = 0]
    /\ UNCHANGED <<in_flight_orders, order, trading_rules, loop_vars, saved_states, events, create_task,
                   cancel_task, order_status_task, trade_status_task, remote,
                   noop_records>>

\* ----------------------------------------------------------------- restore
LastStates == {"PENDING_CREATE", "OPEN", "PARTIALLY_FILLED",
               "FILLED", "CANCELLED", "FAILED"}
TerminalStates == {"FILLED", "CANCELLED", "FAILED"}

\* An order of the largest amount, created on the exchange.
OpenOrder(i) ==
    update_exchange_order_id(XtInFlightOrder(0, "P1", MaxQuanta * BaseStep),
                             ExchangeId(i))

\* XtInFlightOrder.to_json / from_json: the persisted fields of an order.
to_json(o) ==
    [exchange_order_id |-> o.exchange_order_id, trading_pair |-> o.trading_pair,
     amount |-> o.amount, last_state |-> o.last_state,
     executed_amount_base |-> o.executed_amount_base]

from_json(data) ==
    [XtInFlightOrder(data.exchange_order_id, data.trading_pair, data.amount)
        EXCEPT !.executed_amount_base = data.executed_amount_base,
               !.last_state = data.last_state]

\* tracking_states: to_json of the tracked orders that are not done.
tracking_states ==
    [i \in {j \in in_flight_orders : ~is_done(order[j])} |-> to_json(order[i])]

\* What a persisted mapping may hold for client order id i: an order in
\* state last_state, as to_json wrote it.
SavedOrder(i, last_state) ==
    to_json([OpenOrder(i) EXCEPT !.last_state = last_state])

\* self._in_flight_orders.update({key: from_json(value) for key, value in ...})
restore_tracking_states(reg, saved) ==
    [ifo |-> reg.ifo \cup DOMAIN saved,
     order |-> [i \in Ids |-> IF i \in DOMAIN saved THEN from_json(saved[i])
                                ELSE reg.order[i]]]

RestoreTrackingStates(saved) ==
    LET reg == restore_tracking_states(
                   [ifo |-> in_flight_orders, order |-> order], saved)
    IN /\ in_flight_orders' = reg.ifo
       /\ order' = reg.order
       /\ saved_states' = saved
       /\ UNCHANGED <<trading_rules, loop_vars, events, create_task, cancel_task,
                      cancel_all_task, order_status_task, trade_status_task,
                      remote, noop_records>>

Next ==
    \/ \E i \in Ids, p \in Pairs, a \in RawAmounts, ot \in OrderTypes :
          Submit(i, p, a, ot)
    \/ \E i \in Ids : CreateOrderBegin(i)
    \/ \E i \in Ids, outcome \in {"ok", "error", "malformed"} :
          CreateOrderResume(i, outcome)
    \/ \E i \in Ids : CreateOrderInterrupt(i)
    \/ \E i \in Ids, amt \in {BaseStep * k : k \in 1..MaxQuanta} : RemoteFill(i, amt)
    \/ \E i \in Ids : RemoteFail(i)
    \/ \E i \in Ids : ExecuteCancelBegin(i)
    \/ ExecuteCancelGotId
    \/ ExecuteCancelWaitExpired
    \/ \E accepted \in BOOLEAN : ExecuteCancelResume(accepted)
    \/ StatusPollingWake
    \/ UpdateOrderStatusGotId
    \/ UpdateOrderStatusWaitExpired
    \/ \E ok \in BOOLEAN : UpdateOrderStatusResponse(ok)
    \/ ProcessOrderMessageGotId
    \/ ProcessOrderMessageWaitExpired
    \/ \E ok \in BOOLEAN : UpdateTradeStatusResponse(ok)
    \/ ProcessTradeMessageGotId
    \/ ProcessTradeMessageWaitExpired
    \/ CancelAllBegin
    \/ CancelAllPaced
    \/ CancelAllGotId
    \/ CancelAllWaitExpired
    \/ \E accepted \in BOOLEAN : CancelAllCancelResume(accepted)
    \/ \E ok \in BOOLEAN : CancelAllOpenOrdersResponse(ok)
    \/ GetOpenOrdersGotId
    \/ GetOpenOrdersWaitExpired

Spec == Init /\ [][Next]_vars

\* A connector that is only restored from persisted state.
NextRestore ==
    \E S \in SUBSET Ids : \E st \in [S -> LastStates] :
        RestoreTrackingStates([i \in S |-> SavedOrder(i, st[i])])

SpecRestore == Init /\ [][NextRestore]_vars

\* cancel_all over MaxOrders open orders, each submitted and created before.

InitCancelAll ==
    /\ in_flight_orders = Ids
    /\ order = [i \in Ids |-> OpenOrder(i)]
    /\ trading_rules = {"P1"}
    /\ saved_states = <<>>
    /\ events = [i \in Ids |-> <<[kind |-> "Created", amt |-> 0]>>]
    /\ create_task = [i \in Ids |->
           [pc |-> "created", trading_pair |-> "P1",
            amount |-> MaxQuanta * BaseStep, order_type |-> "LIMIT",
            called |-> TRUE]]
    /\ cancel_task = IdleCancel
    /\ cancel_all_task = IdleCancelAll
    /\ order_status_task = IdleStatusTask
    /\ trade_status_task = IdleStatusTask
    /\ remote = [i \in Ids |-> [status |-> "open", trades |-> <<>>]]
    /\ noop_records = FALSE
    /\ InitLoops

NextCancelAll ==
    \/ CancelAllBegin
    \/ CancelAllPaced
    \/ \E accepted \in BOOLEAN : CancelAllCancelResume(accepted)
    \/ \E ok \in BOOLEAN : CancelAllOpenOrdersResponse(ok)
    \/ \E i \in Ids : RemoteFill(i, MaxQuanta * BaseStep)
    \/ StatusPollingWake
    \/ \E ok \in BOOLEAN : UpdateOrderStatusResponse(ok)
    \/ \E ok \in BOOLEAN : UpdateTradeStatusResponse(ok)

SpecCancelAll == InitCancelAll /\ [][NextCancelAll]_vars

\* The submit and cancel flows alone: no status poll runs.
NextCancel ==
    \/ \E i \in Ids, p \in Pairs, a \in RawAmounts, ot \in OrderTypes :
          Submit(i, p, a, ot)
    \/ \E i \in Ids : CreateOrderBegin(i)
    \/ \E i \in Ids, outcome \in {"ok", "error", "malformed"} :
          CreateOrderResume(i, outcome)
    \/ \E i \in Ids : CreateOrderInterrupt(i)
    \/ \E i \in Ids : ExecuteCancelBegin(i)
    \/ ExecuteCancelGotId
    \/ ExecuteCancelWaitExpired
    \/ \E accepted \in BOOLEAN : ExecuteCancelResume(accepted)
    \/ CancelAllBegin
    \/ CancelAllPaced
    \/ CancelAllGotId
    \/ CancelAllWaitExpired
    \/ \E accepted \in BOOLEAN : CancelAllCancelResume(accepted)
    \/ \E ok \in BOOLEAN : CancelAllOpenOrdersResponse(ok)
    \/ GetOpenOrdersGotId
    \/ GetOpenOrdersWaitExpired

SpecCancel == Init /\ [][NextCancel]_vars

\* The same flows under the scheduling of the event loop: a coroutine that can
\* run does run, a request that was sent returns (with a response or an
\* error), and a timer that was set expires.
FairCancel ==
    /\ WF_vars(\E i \in Ids : CreateOrderBegin(i))
    /\ WF_vars(\E i \in Ids, outcome \in {"ok", "error", "malformed"} :
                  CreateOrderResume(i, outcome))
    /\ WF_vars(ExecuteCancelGotId \/ ExecuteCancelWaitExpired)
    /\ WF_vars(\E accepted \in BOOLEAN : ExecuteCancelResume(accepted))
    /\ WF_vars(CancelAllPaced)
    /\ WF_vars(CancelAllGotId \/ CancelAllWaitExpired)
    /\ WF_vars(\E accepted \in BOOLEAN : CancelAllCancelResume(accepted))
    /\ WF_vars(\E ok \in BOOLEAN : CancelAllOpenOrdersResponse(ok))
    /\ WF_vars(GetOpenOrdersGotId \/ GetOpenOrdersWaitExpired)

SpecCancelFair == Init /\ [][NextCancel]_vars /\ FairCancel

\* ----------------------------------------------- order status in batches
\* The exchange ids _update_order_status puts into the request of a pair.
Chunk(requested, trading_pair) ==
    {ExchangeId(i) : i \in {j \in Ids :
                               /\ order[j].trading_pair = trading_pair
                               /\ order[j].exchange_order_id \in requested}}

\* The pairs a request is issued for, in the order of the tasks.
RECURSIVE Batches(_, _)
Batches(requested, pairs) ==
    IF pairs = <<>> THEN <<>>
    ELSE (IF Chunk(requested, Head(pairs)) = {} THEN <<>> ELSE <<Head(pairs)>>)
             \o Batches(requested, Tail(pairs))

\* The records _process_order_message returned on at `if not tracked_order`.
RECURSIVE IgnoredRecords(_, _)
IgnoredRecords(st, msgs) ==
    IF msgs = <<>> THEN <<>>
    ELSE (IF Matching(st, Head(msgs).id) = {} THEN <<Head(msgs)>> ELSE <<>>)
             \o IgnoredRecords(process_order_message(st, Head(msgs)), Tail(msgs))

\* The records of the responses that are processed, in their order.
RECURSIVE ProcessedRecords(_, _)
ProcessedRecords(requested, responses) ==
    IF responses = <<>> \/ ~Head(responses).ok THEN <<>>
    ELSE OrderDetail(Chunk(requested, Head(responses).trading_pair))
             \o ProcessedRecords(requested, Tail(responses))

\* `for response in responses`: an exception among the gathered responses is
\* raised where it stands; the records of the responses before it have been
\* processed, those after it are not looked at.
RECURSIVE ProcessResponses(_, _, _)
ProcessResponses(st, requested, responses) ==
    IF responses = <<>> \/ ~Head(responses).ok THEN st
    ELSE ProcessResponses(
             ProcessOrderMessages(
                 st, OrderDetail(Chunk(requested, Head(responses).trading_pair))),
             requested, Tail(responses))

\* safe_gather(*tasks, return_exceptions=True) returns: every request of the
\* poll has its response or its exception (those of the pairs in `failed`).
\* The general form of UpdateOrderStatusResponse, for orders that all have
\* their exchange id; it ends with the exception raised, or normally.
UpdateOrderStatusBatches(failed) ==
    LET batches == Batches(order_status_task.requested, trading_pairs)
        responses == [k \in DOMAIN batches |->
                         [trading_pair |-> batches[k],
                          ok |-> batches[k] \notin failed]]
    IN
    /\ order_status_task.pc = "fetching"
    /\ WaitTarget(1) = 0
    /\ failed \subseteq {batches[k] : k \in DOMAIN batches}
    /\ order_status_task' =
          [order_status_task EXCEPT
              !.pc = IF failed = {} THEN "idle" ELSE "raised",
              !.responses = responses,
              !.ignored = IgnoredRecords(
                              Local, ProcessedRecords(order_status_task.requested,
                                                      responses))]
    /\ ApplyLocal(ProcessResponses(Local, order_status_task.requested, responses))
    /\ UNCHANGED <<trading_rules, loop_vars, saved_states, create_task, cancel_task,
                   cancel_all_task, trade_status_task, remote>>

\* The exception of _update_order_status reaches the gather of the loop.
UpdateOrderStatusRaised ==
    /\ order_status_task.pc = "raised"
    /\ order_status_task' = IdleStatusTask
    /\ UNCHANGED <<in_flight_orders, order, trading_rules, loop_vars, saved_states, events,
                   create_task, cancel_task, cancel_all_task, trade_status_task,
                   remote, noop_records>>

\* MaxOrders open orders, spread over the trading pairs, each submitted and
\* created before; both pairs have a trading rule.
InitBatches ==
    /\ in_flight_orders = Ids
    /\ order = [i \in Ids |->
                   [OpenOrder(i) EXCEPT
                       !.trading_pair = trading_pairs[((i - 1) % 2) + 1]]]
    /\ trading_rules = {"P1", "P2"}
    /\ saved_states = <<>>
    /\ events = [i \in Ids |-> <<[kind |-> "Created", amt |-> 0]>>]
    /\ create_task = [i \in Ids |->
           [pc |-> "created", trading_pair |-> trading_pairs[((i - 1) % 2) + 1],
            amount |-> MaxQuanta * BaseStep, order_type |-> "LIMIT",
            called |-> TRUE]]
    /\ cancel_task = IdleCancel
    /\ cancel_all_task = IdleCancelAll
    /\ order_status_task = IdleStatusTask
    /\ trade_status_task = IdleStatusTask
    /\ remote = [i \in Ids |-> [status |-> "open", trades |-> <<>>]]
    /\ noop_records = FALSE
    /\ InitLoops

NextBatches ==
    \/ \E i \in Ids, amt \in {BaseStep * k : k \in 1..MaxQuanta} : RemoteFill(i, amt)
    \/ \E i \in Ids : RemoteFail(i)
    \/ StatusPollingWake
    \/ \E failed \in SUBSET {"P1", "P2"} : UpdateOrderStatusBatches(failed)
    \/ UpdateOrderStatusRaised
    \/ \E ok \in BOOLEAN : UpdateTradeStatusResponse(ok)

SpecBatches == InitBatches /\ [][NextBatches]_vars

\* A connector that is started over orders of an earlier run: the exchange
\* holds them, the registry is empty until the persisted states are restored,
\* and then the status polls run.
InitRestorePoll ==
    /\ in_flight_orders = {}
    /\ order = [i \in Ids |-> NoOrder]
    /\ trading_rules = {"P1", "P2"}
    /\ saved_states = <<>>
    /\ events = [i \in Ids |-> <<>>]
    /\ create_task = [i \in Ids |-> IdleCreate]
    /\ cancel_task = IdleCancel
    /\ cancel_all_task = IdleCancelAll
    /\ order_status_task = IdleStatusTask
    /\ trade_status_task = IdleStatusTask
    /\ remote = [i \in Ids |-> [status |-> "open", trades |-> <<>>]]
    /\ noop_records = FALSE
    /\ InitLoops

\* restore_tracking_states as the framework calls it: once, at startup, with a
\* mapping that holds something.
RestoreAtStartup(saved) ==
    /\ saved_states = <<>>
    /\ DOMAIN saved # {}
    /\ order_status_task.pc = "idle"
    /\ trade_status_task.pc = "idle"
    /\ RestoreTrackingStates(saved)

NextRestorePoll ==
    \/ \E S \in SUBSET (1..MaxSubmits) : \E st \in [S -> LastStates] :
          RestoreAtStartup([i \in S |-> SavedOrder(i, st[i])])
    \/ \E i \in Ids, amt \in {BaseStep * k : k \in 1..MaxQuanta} : RemoteFill(i, amt)
    \/ \E i \in Ids : RemoteFail(i)
    \/ StatusPollingWake
    \/ \E failed \in SUBSET {"P1", "P2"} : UpdateOrderStatusBatches(failed)
    \/ UpdateOrderStatusRaised
    \/ \E ok \in BOOLEAN : UpdateTradeStatusResponse(ok)

SpecRestorePoll == InitRestorePoll /\ [][NextRestorePoll]_vars

\* Submit, cancel and the order-status poll next to a restore: client order
\* ids are fresh, so the restored orders are none of those submitted.
NextIds ==
    \/ \E S \in SUBSET ((MaxSubmits + 1)..MaxOrders) : \E st \in [S -> LastStates] :
          RestoreAtStartup([i \in S |-> SavedOrder(i, st[i])])
    \/ \E i \in Ids, p \in Pairs, a \in RawAmounts, ot \in OrderTypes :
          Submit(i, p, a, ot)
    \/ \E i \in Ids : CreateOrderBegin(i)
    \/ \E i \in Ids, outcome \in {"ok", "error", "malformed"} :
          CreateOrderResume(i, outcome)
    \/ \E i \in Ids : CreateOrderInterrupt(i)
    \/ \E i \in Ids, amt \in {BaseStep * k : k \in 1..MaxQuanta} : RemoteFill(i, amt)
    \/ \E i \in Ids : RemoteFail(i)
    \/ \E i \in Ids : ExecuteCancelBegin(i)
    \/ ExecuteCancelGotId
    \/ ExecuteCancelWaitExpired
    \/ \E accepted \in BOOLEAN : ExecuteCancelResume(accepted)
    \/ StatusPollingWake
    \/ UpdateOrderStatusGotId
    \/ UpdateOrderStatusWaitExpired
    \/ \E ok \in BOOLEAN : UpdateOrderStatusResponse(ok)
    \/ ProcessOrderMessageGotId
    \/ ProcessOrderMessageWaitExpired
    \/ \E ok \in BOOLEAN : UpdateTradeStatusResponse(ok)
    \/ ProcessTradeMessageGotId
    \/ ProcessTradeMessageWaitExpired

SpecIds == Init /\ [][NextIds]_vars

\* Submits of limit orders on the pair that has a rule, next to the status
\* polls, under the scheduling of the event loop: a coroutine that can run
\* does run, a request that was sent returns (with a response or an error),
\* and a timer that was set expires.  Nothing obliges the caller to submit,
\* the exchange to trade, or a create task to be cancelled.
NextPoll ==
    \/ \E i \in Ids, a \in RawAmounts : Submit(i, "P1", a, "LIMIT")
    \/ \E i \in Ids : CreateOrderBegin(i)
    \/ \E i \in Ids, outcome \in {"ok", "error", "malformed"} :
          CreateOrderResume(i, outcome)
    \/ \E i \in Ids : CreateOrderInterrupt(i)
    \/ \E i \in Ids, amt \in {BaseStep * k : k \in 1..MaxQuanta} : RemoteFill(i, amt)
    \/ StatusPollingWake
    \/ UpdateOrderStatusGotId
    \/ UpdateOrderStatusWaitExpired
    \/ \E ok \in BOOLEAN : UpdateOrderStatusResponse(ok)
    \/ ProcessOrderMessageGotId
    \/ ProcessOrderMessageWaitExpired
    \/ \E ok \in BOOLEAN : UpdateTradeStatusResponse(ok)
    \/ ProcessTradeMessageGotId
    \/ ProcessTradeMessageWaitExpired

FairPoll ==
    /\ WF_vars(\E i \in Ids : CreateOrderBegin(i))
    /\ WF_vars(\E i \in Ids, outcome \in {"ok", "error", "malformed"} :
                  CreateOrderResume(i, outcome))
    /\ WF_vars(UpdateOrderStatusGotId \/ UpdateOrderStatusWaitExpired)
    /\ WF_vars(\E ok \in BOOLEAN : UpdateOrderStatusResponse(ok))
    /\ WF_vars(ProcessOrderMessageGotId \/ ProcessOrderMessageWaitExpired)
    /\ WF_vars(\E ok \in BOOLEAN : UpdateTradeStatusResponse(ok))
    /\ WF_vars(ProcessTradeMessageGotId \/ ProcessTradeMessageWaitExpired)

SpecPollFair == Init /\ [][NextPoll]_vars /\ FairPoll

\* Orders on any pair of the exchange, each created before; the connector
\* is configured with trading_pairs, and the status polls run.
ExchangePairs == {"P1", "P2", "P3"}

InitChunks ==
    /\ in_flight_orders \in SUBSET Ids
    /\ \E pairs \in [Ids -> ExchangePairs] :
          /\ order = [i \in Ids |->
                         IF i \in in_flight_orders
                         THEN [OpenOrder(i) EXCEPT !.trading_pair = pairs[i]]
                         ELSE NoOrder]
          /\ create_task = [i \in Ids |->
                 IF i \in in_flight_orders
                 THEN [trading_pair |-> pairs[i], amount |-> MaxQuanta * BaseStep,
                       order_type |-> "LIMIT", pc |-> "created", called |-> TRUE]
                 ELSE IdleCreate]
    /\ trading_rules = ExchangePairs
    /\ saved_states = <<>>
    /\ events = [i \in Ids |->
                    IF i \in in_flight_orders
                    THEN <<[kind |-> "Created", amt |-> 0]>> ELSE <<>>]
    /\ cancel_task = IdleCancel
    /\ cancel_all_task = IdleCancelAll
    /\ order_status_task = IdleStatusTask
    /\ trade_status_task = IdleStatusTask
    /\ remote = [i \in Ids |->
                    IF i \in in_flight_orders
                    THEN [status |-> "open", trades |-> <<>>]
                    ELSE [status |-> "none", trades |-> <<>>]]
    /\ noop_records = FALSE
    /\ InitLoops

NextChunks ==
    \/ \E i \in Ids : RemoteFail(i)
    \/ StatusPollingWake
    \/ \E ok \in BOOLEAN : UpdateOrderStatusResponse(ok)
    \/ \E ok \in BOOLEAN : UpdateTradeStatusResponse(ok)

SpecChunks == InitChunks /\ [][NextChunks]_vars

\* ----------------------------------------------------------- network, rules
\* The market names of the exchange and the rule of each: "ok" has every
\* field _format_trading_rules reads, "bad" lacks one or is not a mapping.
Markets == {"m1", "m2", "m3"}
RuleKinds == {"ok", "bad"}

\* xt_utils.convert_from_exchange_trading_pair: the pair of a market name.
convert_from_exchange_trading_pair(market) ==
    CASE market = "m1" -> "P1"
      [] market = "m2" -> "P2"
      [] OTHER -> "P3"

\* The items of a JSON object: each market once, in the order of the response.
MarketItems ==
    {s \in UNION {[1..n -> [market : Markets, rule : RuleKinds]] :
                     n \in 0..Cardinality(Markets)} :
        \A a, b \in DOMAIN s : a # b => s[a].market # s[b].market}

\* What _api_request gives _update_trading_rules: an exception, a JSON object
\* market -> rule, or JSON that is not an object (a list, for one).
RuleResponses ==
    {[kind |-> "error", entries |-> <<>>], [kind |-> "other", entries |-> <<>>]}
        \cup {[kind |-> "mapping", entries |-> s] : s \in MarketItems}

\* Mutant: the first malformed entry ends the conversion.
RECURSIVE format_trading_rules_stops(_, _)
format_trading_rules_stops(result, items) ==
    IF items = <<>> \/ Head(items).rule = "bad" THEN result
    ELSE format_trading_rules_stops(
             result \cup {convert_from_exchange_trading_pair(Head(items).market)},
             Tail(items))

\* _format_trading_rules: the loop over the items, with its try/except.
RECURSIVE format_trading_rules(_, _)
format_trading_rules(result, items) ==
    IF items = <<>> THEN result
    ELSE format_trading_rules(
             IF Head(items).rule = "ok"
             THEN result \cup {convert_from_exchange_trading_pair(Head(items).market)}
             ELSE result,                                  \* logged, skipped
             Tail(items))

\* start_network: the rules loop is started and, when trading is required,
\* the status loop and the two user-stream tasks; each runs to its first
\* suspension.
StartNetwork ==
    /\ rules_loop.pc = "none"
    /\ status_loop.pc = "none"
    /\ rules_loop' = [pc |-> "fetching"]
    /\ status_loop' = IF network.trading_required
                      THEN [status_loop EXCEPT !.pc = "waiting"]
                      ELSE status_loop
    /\ network' =
          [network EXCEPT
              !.handle = [t \in TaskNames |->
                             IF t = "trading_rules_polling_task"
                                \/ network.trading_required
                             THEN "task" ELSE @[t]],
              !.user_stream = IF network.trading_required
                              THEN [t \in UserStreamTasks |-> "running"]
                              ELSE @,
              !.stop_network = "none"]
    /\ UNCHANGED <<in_flight_orders, order, trading_rules, saved_states, events,
                   create_task, cancel_task, cancel_all_task,
                   order_status_task, trade_status_task, remote, noop_records,
                   market_configs, subtask, balances_task, account_balances,
                   account_available_balances>>

\* Mutant: the subtasks of a cancelled status loop run on.
StopNetwork_orphans ==
    /\ rules_loop.pc \notin {"none", "cancelled"}
    /\ rules_loop' = [pc |-> "cancelled"]
    /\ status_loop' = IF network.handle["status_polling_task"] = "task"
                      THEN [status_loop EXCEPT !.pc = "cancelled"]
                      ELSE status_loop
    /\ network' = stop_network(network)
    /\ UNCHANGED <<in_flight_orders, order, trading_rules, saved_states, events,
                   create_task, cancel_task, cancel_all_task,
                   order_status_task, trade_status_task, remote, noop_records,
                   market_configs, subtask, balances_task, account_balances,
                   account_available_balances>>

\* stop_network: both loop tasks are cancelled.  The cancellation reaches a
\* loop at the await it is suspended in and is re-raised by its handler; the
\* gather a cancelled status loop is suspended in cancels its subtasks.
StopNetwork ==
    /\ rules_loop.pc \notin {"none", "cancelled"}
    /\ rules_loop' = [pc |-> "cancelled"]
    /\ status_loop' = IF network.handle["status_polling_task"] = "task"
                      THEN [status_loop EXCEPT !.pc = "cancelled"]
                      ELSE status_loop
    /\ network' = stop_network(network)
    /\ subtask' = [n \in SubtaskNames |->
                      IF subtask[n] \in {"request", "wait_ids"}
                      THEN "cancelled" ELSE subtask[n]]
    /\ UNCHANGED <<in_flight_orders, order, trading_rules, saved_states, events,
                   create_task, cancel_task, cancel_all_task,
                   order_status_task, trade_status_task, remote, noop_records,
                   market_configs, balances_task, account_balances,
                   account_available_balances>>

\* stop_network before start_network ever ran: no task exists and every
\* handle that was assigned is None.
StopNetworkNotStarted ==
    /\ rules_loop.pc = "none"
    /\ network' = stop_network(network)
    /\ UNCHANGED <<in_flight_orders, order, trading_rules, saved_states, events,
                   create_task, cancel_task, cancel_all_task,
                   order_status_task, trade_status_task, remote, noop_records,
                   market_configs, rules_loop, status_loop, subtask,
                   balances_task, account_balances, account_available_balances>>

\* _update_trading_rules resumes from its request, inside the loop's try.
UpdateTradingRules(response) ==
    /\ rules_loop.pc = "fetching"
    /\ market_configs' = response
    /\ CASE response.kind = "error" ->          \* _api_request raised
              /\ trading_rules' = trading_rules
              /\ rules_loop' = [pc |-> "backoff"]
         [] response.kind = "other" ->          \* clear(), then .items() raises
              /\ trading_rules' = {}
              /\ rules_loop' = [pc |-> "backoff"]
         [] OTHER ->
              /\ trading_rules' = format_trading_rules({}, response.entries)
              /\ rules_loop' = [pc |-> "sleeping"]
    /\ UNCHANGED <<network, in_flight_orders, order, saved_states, events,
                   create_task, cancel_task, cancel_all_task,
                   order_status_task, trade_status_task, remote, noop_records,
                   status_loop, subtask, balances_task, account_balances,
                   account_available_balances>>

\* The sleep of the loop is over (60s after a refresh, 0.5s after an error):
\* the body runs again.
TradingRulesPollingWake ==
    /\ rules_loop.pc \in {"sleeping", "backoff"}
    /\ rules_loop' = [pc |-> "fetching"]
    /\ UNCHANGED <<network, in_flight_orders, order, trading_rules, saved_states, events,
                   create_task, cancel_task, cancel_all_task,
                   order_status_task, trade_status_task, remote, noop_records,
                   market_configs, status_loop, subtask, balances_task,
                   account_balances, account_available_balances>>

NextRules ==
    \/ StartNetwork
    \/ StopNetwork
    \/ \E response \in RuleResponses : UpdateTradingRules(response)
    \/ TradingRulesPollingWake

SpecRules == Init /\ [][NextRules]_vars

\* ------------------------------------------------------------- status loop
\* The asset names of the exchange, as they are spelled in a response.
RawAssets == {"btc", "BTC", "eth"}

\* str.upper of an asset name.
Upper(asset) == IF asset \in {"btc", "BTC"} THEN "BTC" ELSE "ETH"

\* The items of account_info["data"]: each name once, with an account that
\* has the fields "available" and "freeze" ("ok") or lacks one ("bad").
AccountItems ==
    {s \in UNION {[1..n -> [asset : RawAssets, account : RuleKinds]] :
                     n \in 0..Cardinality(RawAssets)} :
        \A a, b \in DOMAIN s : a # b => s[a].asset # s[b].asset}

\* What _api_request gives _update_balances: an exception, or account data.
BalanceResponses ==
    {[kind |-> "error", entries |-> <<>>]}
        \cup {[kind |-> "ok", entries |-> s] : s \in AccountItems}

\* Mutant: the notifier is set on every call of the clock.
Tick_always(timestamp) ==
    /\ timestamp > status_loop.last_timestamp
    /\ status_loop' = [status_loop EXCEPT !.poll_notifier = TRUE,
                                          !.last_timestamp = timestamp]
    /\ UNCHANGED <<network, in_flight_orders, order, trading_rules, saved_states, events,
                   create_task, cancel_task, cancel_all_task,
                   order_status_task, trade_status_task, remote, noop_records,
                   market_configs, rules_loop, subtask, balances_task,
                   account_balances, account_available_balances>>

\* tick(timestamp), called by the clock with increasing timestamps: the
\* notifier is set when the call falls into a later poll interval than the
\* call before it, and the timestamp is kept.
Tick(timestamp) ==
    /\ timestamp > status_loop.last_timestamp
    /\ status_loop' =
          [status_loop EXCEPT
              !.poll_notifier = IF current_tick(timestamp)
                                      > current_tick(status_loop.last_timestamp)
                                THEN TRUE ELSE @,
              !.last_timestamp = timestamp]
    /\ UNCHANGED <<network, in_flight_orders, order, trading_rules, saved_states, events,
                   create_task, cancel_task, cancel_all_task,
                   order_status_task, trade_status_task, remote, noop_records,
                   market_configs, rules_loop, subtask, balances_task,
                   account_balances, account_available_balances>>

\* _status_polling_loop resumes from the notifier and gathers its three
\* coroutines, each run to its first suspension.  `due`: an order is tracked
\* and the status interval has passed since the last complete poll, so the
\* trade and order subtasks issue requests; `pending`: a tracked order has no
\* exchange id yet, so _update_order_status waits first.
StatusPollingLoopWake(due, pending) ==
    /\ status_loop.pc = "waiting"
    /\ status_loop.poll_notifier
    /\ status_loop' = [status_loop EXCEPT !.pc = "gathering"]
    /\ subtask' = [n \in SubtaskNames |->
                      IF n = "balances" THEN "request"
                      ELSE IF ~due THEN "done"
                      ELSE IF n = "orders" /\ pending THEN "wait_ids"
                      ELSE "request"]
    /\ balances_task' = [local_asset_names |-> account_balances,
                         account_info |-> NoResponse]
    /\ UNCHANGED <<network, in_flight_orders, order, trading_rules, saved_states, events,
                   create_task, cancel_task, cancel_all_task,
                   order_status_task, trade_status_task, remote, noop_records,
                   market_configs, rules_loop, account_balances,
                   account_available_balances>>

\* The loop over account_info["data"].items(): both maps get the upper-case
\* name of each account; an account without its fields raises.
RECURSIVE SetBalances(_, _)
SetBalances(st, items) ==
    IF items = <<>> THEN st
    ELSE IF Head(items).account = "bad"
    THEN [st EXCEPT !.raised = TRUE]
    ELSE SetBalances(
             [st EXCEPT !.available = @ \cup {Upper(Head(items).asset)},
                        !.total = @ \cup {Upper(Head(items).asset)},
                        !.remote_asset_names = @ \cup {Upper(Head(items).asset)}],
             Tail(items))

\* The rest of _update_balances: the names known before the request and not
\* in the response are deleted from both maps (a name missing there raises).
RemoveBalances(st, local_asset_names) ==
    LET asset_names_to_remove == local_asset_names \ st.remote_asset_names IN
    IF st.raised THEN st
    ELSE IF asset_names_to_remove \subseteq (st.available \cap st.total)
    THEN [st EXCEPT !.available = @ \ asset_names_to_remove,
                    !.total = @ \ asset_names_to_remove]
    ELSE [st EXCEPT !.raised = TRUE]

update_balances(response, local_asset_names) ==
    RemoveBalances(SetBalances([available |-> account_available_balances,
                                total |-> account_balances,
                                remote_asset_names |-> {}, raised |-> FALSE],
                               response.entries),
                   local_asset_names)

\* _update_balances resumes from its request.
UpdateBalances(response) ==
    /\ subtask["balances"] = "request"
    /\ balances_task' = [balances_task EXCEPT !.account_info = response]
    /\ IF response.kind = "error"
       THEN /\ subtask' = [subtask EXCEPT !["balances"] = "failed"]
            /\ UNCHANGED <<network, account_balances, account_available_balances>>
       ELSE LET st == update_balances(response,
                                      balances_task.local_asset_names) IN
            /\ account_available_balances' = st.available
            /\ account_balances' = st.total
            /\ subtask' = [subtask EXCEPT !["balances"] =
                              IF st.raised THEN "failed" ELSE "done"]
    /\ UNCHANGED <<network, in_flight_orders, order, trading_rules, saved_states, events,
                   create_task, cancel_task, cancel_all_task,
                   order_status_task, trade_status_task, remote, noop_records,
                   market_configs, rules_loop, status_loop>>

\* _update_trade_status ends, with its records processed or with an exception.
GatheredTradeStatus(ok) ==
    /\ subtask["trades"] = "request"
    /\ subtask' = [subtask EXCEPT !["trades"] = IF ok THEN "done" ELSE "failed"]
    /\ UNCHANGED <<network, in_flight_orders, order, trading_rules, saved_states, events,
                   create_task, cancel_task, cancel_all_task,
                   order_status_task, trade_status_task, remote, noop_records,
                   market_configs, rules_loop, status_loop, balances_task,
                   account_balances, account_available_balances>>

\* _update_order_status leaves its wait for the exchange ids: the requests
\* are issued, or the wait ended with an exception.
GatheredOrderStatusGotIds(ok) ==
    /\ subtask["orders"] = "wait_ids"
    /\ subtask' = [subtask EXCEPT !["orders"] =
                      IF ok THEN "request" ELSE "failed"]
    /\ UNCHANGED <<network, in_flight_orders, order, trading_rules, saved_states, events,
                   create_task, cancel_task, cancel_all_task,
                   order_status_task, trade_status_task, remote, noop_records,
                   market_configs, rules_loop, status_loop, balances_task,
                   account_balances, account_available_balances>>

\* _update_order_status ends.
GatheredOrderStatus(ok) ==
    /\ subtask["orders"] = "request"
    /\ subtask' = [subtask EXCEPT !["orders"] = IF ok THEN "done" ELSE "failed"]
    /\ UNCHANGED <<network, in_flight_orders, order, trading_rules, saved_states, events,
                   create_task, cancel_task, cancel_all_task,
                   order_status_task, trade_status_task, remote, noop_records,
                   market_configs, rules_loop, status_loop, balances_task,
                   account_balances, account_available_balances>>

Settled(n) == subtask[n] \in {"done", "failed"}

\* Mutant: the first exception of a subtask ends the gather.
StatusLoopSettle_first_failure ==
    /\ status_loop.pc = "gathering"
    /\ \/ \A n \in SubtaskNames : Settled(n)
       \/ \E n \in SubtaskNames : subtask[n] = "failed"
    /\ status_loop' =
          IF \E n \in SubtaskNames : subtask[n] = "failed"
          THEN [status_loop EXCEPT !.pc = "backoff"]
          ELSE [status_loop EXCEPT !.pc = "waiting", !.poll_notifier = FALSE]
    /\ UNCHANGED <<network, in_flight_orders, order, trading_rules, saved_states, events,
                   create_task, cancel_task, cancel_all_task,
                   order_status_task, trade_status_task, remote, noop_records,
                   market_configs, rules_loop, subtask, balances_task,
                   account_balances, account_available_balances>>

\* safe_gather returns to _status_polling_loop when the three subtasks have
\* settled: with an exception of one of them the loop logs and backs off,
\* the notifier still set; otherwise it clears the notifier and waits.
StatusLoopSettle ==
    /\ status_loop.pc = "gathering"
    /\ \A n \in SubtaskNames : Settled(n)
    /\ status_loop' =
          IF \E n \in SubtaskNames : subtask[n] = "failed"
          THEN [status_loop EXCEPT !.pc = "backoff"]
          ELSE [status_loop EXCEPT !.pc = "waiting", !.poll_notifier = FALSE]
    /\ UNCHANGED <<network, in_flight_orders, order, trading_rules, saved_states, events,
                   create_task, cancel_task, cancel_all_task,
                   order_status_task, trade_status_task, remote, noop_records,
                   market_configs, rules_loop, subtask, balances_task,
                   account_balances, account_available_balances>>

\* The back-off of 0.5s is over: the loop is at the notifier again.
StatusLoopBackoffOver ==
    /\ status_loop.pc = "backoff"
    /\ status_loop' = [status_loop EXCEPT !.pc = "waiting"]
    /\ UNCHANGED <<network, in_flight_orders, order, trading_rules, saved_states, events,
                   create_task, cancel_task, cancel_all_task,
                   order_status_task, trade_status_task, remote, noop_records,
                   market_configs, rules_loop, subtask, balances_task,
                   account_balances, account_available_balances>>

NextStatusLoop ==
    \/ StartNetwork
    \/ StopNetwork
    \/ \E timestamp \in Timestamps : Tick(timestamp)
    \/ \E due, pending \in BOOLEAN : StatusPollingLoopWake(due, pending)
    \/ \E response \in BalanceResponses : UpdateBalances(response)
    \/ \E ok \in BOOLEAN : GatheredTradeStatus(ok)
    \/ \E ok \in BOOLEAN : GatheredOrderStatusGotIds(ok)
    \/ \E ok \in BOOLEAN : GatheredOrderStatus(ok)
    \/ StatusLoopSettle
    \/ StatusLoopBackoffOver

SpecStatusLoop == Init /\ [][NextStatusLoop]_vars

\* Both loops side by side.
NextLoops ==
    \/ NextStatusLoop
    \/ \E response \in {r \in RuleResponses : Len(r.entries) <= 1} :
          UpdateTradingRules(response)
    \/ TradingRulesPollingWake

SpecLoops == Init /\ [][NextLoops]_vars

\* The connector after construction, with either value of trading_required.
InitNetwork ==
    /\ in_flight_orders = {}
    /\ order = [i \in Ids |-> NoOrder]
    /\ trading_rules = {"P1"}
    /\ saved_states = <<>>
    /\ events = [i \in Ids |-> <<>>]
    /\ create_task = [i \in Ids |-> IdleCreate]
    /\ cancel_task = IdleCancel
    /\ cancel_all_task = IdleCancelAll
    /\ order_status_task = IdleStatusTask
    /\ trade_status_task = IdleStatusTask
    /\ remote = [i \in Ids |-> [status |-> "none", trades |-> <<>>]]
    /\ noop_records = FALSE
    /\ market_configs = NoResponse
    /\ rules_loop = [pc |-> "none"]
    /\ status_loop = [pc |-> "none", poll_notifier |-> FALSE,
                      last_timestamp |-> 0]
    /\ subtask = NoSubtasks
    /\ balances_task = NoBalancesTask
    /\ account_balances = {}
    /\ account_available_balances = {}
    /\ \E trading_required \in BOOLEAN :
          network = NetworkAfterInit(trading_required)

\* The network is started and stopped in either order while the status loop
\* runs.
NextNetwork ==
    \/ StopNetworkNotStarted
    \/ NextStatusLoop

SpecNetwork == InitNetwork /\ [][NextNetwork]_vars

\* ================================================================== claims
Begun(i) == create_task[i].pc \notin {"none", "scheduled"}
HasEvent(i, kind) == Count(i, kind) > 0
RemoteExecuted(i) == SumSeq(remote[i].trades)
Positions(i, kind) == {k \in DOMAIN events[i] : events[i][k].kind = kind}

\* C1: a submit whose order type is outside the limit family never creates a
\* tracked order, makes no remote create call and emits exactly one Failure
\* event for its client order id.
C1_UnsupportedTypeFails ==
    \A i \in Ids :
        (Begun(i) /\ ~is_limit_type(create_task[i].order_type)) =>
            /\ i \notin in_flight_orders
            /\ ~create_task[i].called
            /\ Count(i, "Failure") = 1

\* C2: after restore_tracking_states the registry holds none of the saved
\* orders whose persisted state is terminal and all of the others.
C2_RestoreOnlyNonTerminal ==
    \A i \in DOMAIN saved_states :
        IF saved_states[i].last_state \in TerminalStates
        THEN i \notin in_flight_orders
        ELSE i \in in_flight_orders
             /\ order[i].last_state = saved_states[i].last_state

\* C3: over every interleaving of polls, cancel and cancel_all an order gets
\* the Cancelled event at most once, and an order observed cancelled is not
\* tracked any more.
C3_CancelledOnce ==
    \A i \in Ids :
        /\ Count(i, "Cancelled") <= 1
        /\ is_cancelled(order[i]) =>
              (i \notin in_flight_orders /\ Count(i, "Cancelled") = 1)

\* C4: a fill seen through both the order-status and the trade-status path is
\* applied once: the Fill events of an order add up to its executed amount,
\* which never exceeds what the exchange executed, and there are never more
\* Fill events than trades.
C4_FillAppliedOnce ==
    \A i \in Ids :
        /\ FillSum(events[i]) = order[i].executed_amount_base
        /\ order[i].executed_amount_base <= RemoteExecuted(i)
        /\ Count(i, "Fill") <= Len(remote[i].trades)

C4_Witness ==
    \E i \in Ids :
        /\ order[i].trade_id_set = {1}
        /\ Len(remote[i].trades) = 2
        /\ Count(i, "Fill") = 2
        /\ HasEvent(i, "Completed")

\* C5: the executed amount of an order is the sum of the trades applied by
\* id, each once, plus at most the one increase of the cumulative amount the
\* order-status path applied; a duplicate or stale record changes nothing.
AppliedTrades(i) ==
    SumSeq([k \in 1..Len(remote[i].trades) |->
               IF k \in order[i].trade_id_set THEN remote[i].trades[k] ELSE 0])

C5_FirstSeenDeltas ==
    \A i \in Ids :
        /\ order[i].trade_id_set \subseteq DOMAIN remote[i].trades
        /\ \/ order[i].executed_amount_base = AppliedTrades(i)
           \/ /\ is_done(order[i])
              /\ order[i].executed_amount_base = RemoteExecuted(i)
              /\ order[i].executed_amount_base > AppliedTrades(i)

C5_Witness ==
    /\ noop_records
    /\ \E i \in Ids :
          /\ i \in in_flight_orders
          /\ order[i].trade_id_set = {1}
          /\ order[i].executed_amount_base = BaseStep
          /\ Count(i, "Fill") = 1
          /\ \A j \in Ids \ {i} : remote[j].trades = <<>>

\* C6: an order whose executed amount reaches its requested amount gets the
\* Completed event exactly once, a Fill event comes right before it, and no
\* Fill event of the order follows it.
C6_FillsBeforeCompleted ==
    \A i \in Ids :
        /\ Count(i, "Completed") <= 1
        /\ (order[i].amount > 0
               /\ order[i].executed_amount_base >= order[i].amount)
              <=> HasEvent(i, "Completed")
        /\ \A c \in Positions(i, "Completed") :
              /\ c > 1
              /\ events[i][c - 1].kind = "Fill"
              /\ \A f \in Positions(i, "Fill") : f < c

C6_Witness ==
    \E i \in Ids :
        /\ Count(i, "Fill") = 2
        /\ HasEvent(i, "Completed")
        /\ i \notin in_flight_orders

\* C7: a submit whose quantized amount is below min_order_size of its pair
\* never calls the remote create endpoint, leaves no tracked entry and emits a
\* Failure event.
C7_BelowMinimumRejected ==
    \A i \in Ids :
        (/\ Begun(i)
         /\ create_task[i].trading_pair \in trading_rules
         /\ quantize_order_amount(create_task[i].trading_pair,
                                  create_task[i].amount) < MinOrderSize) =>
            /\ ~create_task[i].called
            /\ i \notin in_flight_orders
            /\ HasEvent(i, "Failure")

\* C8: a submit flow that ended without success (validation failure, remote
\* create error, malformed response, interruption) has left the order out of
\* the registry and a Failure event for it.
C8_NoHalfRegisteredOrder ==
    \A i \in Ids :
        create_task[i].pc \in {"raised", "failed", "interrupted"} =>
            /\ i \notin in_flight_orders
            /\ HasEvent(i, "Failure")

ExpectedResults ==
    LET ids == SeqOfSet(cancel_all_task.tracked_orders) IN
    [k \in DOMAIN ids |->
        [id |-> ids[k],
         success |-> ~(/\ ids[k] \in in_flight_orders
                       /\ order[ids[k]].exchange_order_id
                              \in cancel_all_task'.open_resp)]]

C10_FailureOnce ==
    \A i \in Ids :
        /\ Count(i, "Failure") <= 1
        /\ is_failure(order[i]) =>
              (i \notin in_flight_orders /\ Count(i, "Failure") = 1)

C10_Witness ==
    \E i \in Ids :
        /\ is_failure(order[i])
        /\ HasEvent(i, "Created")
        /\ HasEvent(i, "Failure")

\* C11: a cancel request that returns with an error or with a code outside
\* the accepted set ends the cancel flow normally (cancel gets its coroutine
\* back, cancel_all goes on with its pacing delay): no event is emitted, and
\* the registry and the order are as they were.
C11_CancelFailureOnlyLogged ==
    [][/\ (cancel_task.pc = "sent" /\ cancel_task' # cancel_task) =>
             /\ cancel_task' = IdleCancel
             /\ UNCHANGED <<network, in_flight_orders, order, events>>
       /\ (cancel_all_task.pc = "sent" /\ cancel_all_task' # cancel_all_task) =>
             /\ cancel_all_task'.pc = "pacing"
             /\ UNCHANGED <<network, in_flight_orders, order, events>>]_vars

\* cancel_all ran to its end over an order whose cancel request was rejected:
\* the order is still open on the exchange, tracked and OPEN, with no event
\* but Created.
C11_Witness ==
    /\ cancel_all_task.pc = "done"
    /\ cancel_all_task.fetched
    /\ \E k \in DOMAIN cancel_all_task.results :
          LET i == cancel_all_task.results[k].id IN
          /\ ~cancel_all_task.results[k].success
          /\ i \in in_flight_orders
          /\ order[i].last_state = "OPEN"
          /\ remote[i].status = "open"
          /\ events[i] = <<[kind |-> "Created", amt |-> 0]>>

\* C12: a cancel that waits for the exchange id of its order always ends.
C12_CancelWaitEnds ==
    (cancel_task.pc = "wait_id") ~> (cancel_task.pc # "wait_id")

\* A cancel that waits for the id of an order whose create request has failed
\* or was abandoned: the id is never assigned.
C12_Witness ==
    /\ cancel_task.pc = "wait_id"
    /\ create_task[cancel_task.order_id].pc \in {"failed", "interrupted"}
    /\ order[cancel_task.order_id].exchange_order_id = 0

\* A flow that was waiting for an exchange id goes on because the id is there.
Resumes(task, task2) ==
    /\ task2 # task
    /\ order[task.wait_on].exchange_order_id # 0

\* C19: whenever control is with the scheduler, no tracked order has a
\* terminal last_state, and an order that left the registry in a terminal
\* state has had its terminal event.
C19_TerminalOrdersLeave ==
    \A i \in Ids :
        /\ i \in in_flight_orders => order[i].last_state \notin TerminalStates
        /\ (i \notin in_flight_orders /\ is_done(order[i])) =>
              HasEvent(i, "Completed")
        /\ (i \notin in_flight_orders /\ is_cancelled(order[i])) =>
              HasEvent(i, "Cancelled")
        /\ (i \notin in_flight_orders /\ is_failure(order[i])) =>
              HasEvent(i, "Failure")

\* C20: a flow that resumes from a wait inside a loop over the registry goes
\* on, whatever was inserted into or removed from the registry meanwhile:
\* the loop never ends with "dictionary changed size during iteration".
C20_NoLiveIteration ==
    [][/\ (order_status_task.pc \in {"wait_ids", "blocked"}
             /\ Resumes(order_status_task, order_status_task')) =>
                ~DictChangedSize(order_status_task)
       /\ (trade_status_task.pc = "blocked"
             /\ Resumes(trade_status_task, trade_status_task')) =>
                ~DictChangedSize(trade_status_task)
       /\ (cancel_all_task.pc = "wait_ids"
             /\ Resumes(cancel_all_task, cancel_all_task')) =>
                ~DictChangedSize(cancel_all_task)]_vars

\* C16: a refresh of the trading rules that fails, in the request or in the
\* conversion of the response, leaves the table it found; a refresh that
\* succeeds replaces the table by the converted response in one step.
C16_RefreshKeepsTableOnFailure ==
    [][/\ (rules_loop.pc = "fetching" /\ rules_loop'.pc = "backoff") =>
             trading_rules' = trading_rules
       /\ (rules_loop.pc = "fetching" /\ rules_loop'.pc = "sleeping") =>
             trading_rules' = format_trading_rules({}, market_configs'.entries)
      ]_vars

\* The pairs of the well-formed entries of a response.
WellFormedPairs(items) ==
    {convert_from_exchange_trading_pair(items[k].market) :
        k \in {k \in DOMAIN items : items[k].rule = "ok"}}

\* C17: a response with malformed entries, at any position, does not fail
\* the refresh, and the table it leaves holds exactly the well-formed pairs.
C17_MalformedEntriesSkipped ==
    market_configs.kind = "mapping" =>
        /\ rules_loop.pc # "backoff"
        /\ trading_rules = WellFormedPairs(market_configs.entries)

\* A refresh whose first and last entries are malformed.
C17_Witness ==
    /\ rules_loop.pc = "sleeping"
    /\ market_configs.kind = "mapping"
    /\ Len(market_configs.entries) = 3
    /\ market_configs.entries[1].rule = "bad"
    /\ market_configs.entries[2].rule = "ok"
    /\ market_configs.entries[3].rule = "bad"
    /\ trading_rules =
          {convert_from_exchange_trading_pair(market_configs.entries[2].market)}

\* C13: a wake of the status loop starts its three subtasks together; the
\* exception of one cancels no other, and the loop reaches its error handler
\* only when all three have settled.
C13_GatherSettlesAll ==
    [][/\ (status_loop.pc = "waiting" /\ status_loop'.pc = "gathering") =>
             \A n \in SubtaskNames :
                subtask'[n] \in {"request", "wait_ids", "done"}
       /\ (\E n \in SubtaskNames : subtask'[n] = "cancelled") =>
             status_loop'.pc = "cancelled"
       /\ (status_loop.pc = "gathering" /\ status_loop'.pc = "backoff") =>
             \A n \in SubtaskNames : Settled(n)
      ]_vars

\* The handler was reached with one subtask failed first and the other two
\* completed.
C13_Witness ==
    /\ status_loop.pc = "backoff"
    /\ subtask["orders"] = "failed"
    /\ subtask["balances"] = "done"
    /\ subtask["trades"] = "done"
    /\ account_balances # {}

\* C14: an exception of the body sends either loop to its back-off and from
\* there to its body again; a cancelled loop stays cancelled, and after the
\* cancellation no response is processed and no subtask of it goes on.
C14_LoopsSurviveErrorsNotCancel ==
    [][/\ (rules_loop.pc = "fetching" /\ rules_loop'.pc # "cancelled"
             /\ market_configs'.kind \in {"error", "other"}
             /\ rules_loop' # rules_loop) =>
             rules_loop'.pc = "backoff"
       /\ (rules_loop.pc = "backoff" /\ rules_loop' # rules_loop) =>
             rules_loop'.pc \in {"fetching", "cancelled"}
       /\ (status_loop.pc = "gathering" /\ status_loop'.pc # "cancelled"
             /\ status_loop'.pc # "gathering") =>
             status_loop'.pc =
                IF \E n \in SubtaskNames : subtask[n] = "failed"
                THEN "backoff" ELSE "waiting"
       /\ (status_loop.pc = "backoff" /\ status_loop'.pc # "backoff") =>
             status_loop'.pc \in {"waiting", "cancelled"}
       /\ rules_loop.pc = "cancelled" =>
             /\ rules_loop'.pc = "cancelled"
             /\ UNCHANGED <<network, market_configs, trading_rules>>
       /\ status_loop.pc = "cancelled" =>
             /\ status_loop'.pc = "cancelled"
             /\ UNCHANGED <<network, subtask, balances_task, account_balances,
                            account_available_balances>>
      ]_vars

\* Both loops were cancelled, the rule loop after an error it recovered from
\* and the status loop in the middle of a gather.
C14_Witness ==
    /\ rules_loop.pc = "cancelled"
    /\ status_loop.pc = "cancelled"
    /\ market_configs.kind = "mapping"
    /\ trading_rules = {}
    /\ subtask["balances"] = "cancelled"
    /\ subtask["orders"] = "cancelled"
    /\ subtask["trades"] = "failed"

\* The upper-case names of the accounts of a response.
AssetNames(response) ==
    {Upper(response.entries[k].asset) : k \in DOMAIN response.entries}

\* C18: when _update_balances ends, the names in both balance maps are the
\* names of the response it received, and a request that fails leaves both
\* maps as they were.  (A response with an account that cannot be read is
\* allowed either outcome.)
C18_BalanceMapsFollowResponse ==
    [][(subtask["balances"] = "request"
          /\ subtask'["balances"] \in {"done", "failed"}) =>
        LET response == balances_task'.account_info IN
        \/ /\ response.kind = "ok"
           /\ account_balances' = AssetNames(response)
           /\ account_available_balances' = AssetNames(response)
        \/ /\ \/ response.kind = "error"
              \/ \E k \in DOMAIN response.entries :
                    response.entries[k].account = "bad"
           /\ UNCHANGED <<network, account_balances, account_available_balances>>
      ]_vars

\* The records of the batches of a poll that were fetched.
RECURSIVE FetchedRecords(_, _)
FetchedRecords(requested, responses) ==
    IF responses = <<>> THEN <<>>
    ELSE (IF Head(responses).ok
          THEN OrderDetail(Chunk(requested, Head(responses).trading_pair))
          ELSE <<>>) \o FetchedRecords(requested, Tail(responses))

\* C15: a poll of the order status in which the fetch of a batch failed ends
\* with that error, and the records of every batch that was fetched have
\* been applied to the registry all the same.
C15_FetchedBatchesApplied ==
    [][(order_status_task.pc = "fetching" /\ order_status_task'.pc # "fetching"
          /\ order_status_task'.responses # <<>>) =>
        LET responses == order_status_task'.responses
            st == ProcessOrderMessages(
                      Local, FetchedRecords(order_status_task.requested, responses))
        IN /\ (\E k \in DOMAIN responses : ~responses[k].ok) =>
                  order_status_task'.pc = "raised"
           /\ in_flight_orders' = st.ifo
           /\ order' = st.order
           /\ events' = st.events
      ]_vars

\* Order i is left as it was by the step.
Untouched(i) ==
    /\ order'[i] = order[i]
    /\ events'[i] = events[i]
    /\ (i \in in_flight_orders') = (i \in in_flight_orders)

\* C21: a status or trade record whose exchange order id matches no tracked
\* order changes nothing: the order that once had the id and every order no
\* record of the response matches keep their state, their events and their
\* place in or out of the registry.
C21_UnmatchedRecordsIgnored ==
    [][/\ (order_status_task.pc = "fetching"
             /\ order_status_task'.pc # "fetching") =>
             LET msgs == ProcessedRecords(order_status_task.requested,
                                          order_status_task'.responses)
             IN \A i \in Ids :
                   (\A k \in DOMAIN msgs : Matching(Local, msgs[k].id) # {i})
                       => Untouched(i)
       /\ (trade_status_task.pc = "fetching"
             /\ trade_status_task'.pc # "fetching") =>
             \A i \in Ids :
                (\A k \in DOMAIN TradeDetail :
                    Matching(Local, TradeDetail[k].orderId) # {i})
                    => Untouched(i)
      ]_vars

\* An order-status poll ended normally after it returned on the record of an
\* order that the trade path had completed and untracked meanwhile, next to
\* an order that is still tracked.
C21_Witness ==
    /\ order_status_task.pc = "idle"
    /\ order_status_task.ignored # <<>>
    /\ \E i \in Ids :
          /\ order_status_task.ignored[1].id = ExchangeId(i)
          /\ i \notin in_flight_orders
          /\ is_done(order[i])
          /\ Count(i, "Completed") = 1
    /\ in_flight_orders # {}

\* C22: over every step, the executed amount of an order that stays tracked
\* does not decrease, and the executed amount of a tracked order is at most
\* the amount that was requested.
C22_ExecutedMonotoneBounded ==
    [][\A i \in in_flight_orders' :
          /\ order'[i].executed_amount_base <= order'[i].amount
          /\ i \in in_flight_orders =>
                order'[i].executed_amount_base >= order[i].executed_amount_base
      ]_vars

\* A tracked order is partly executed through trade records, and another
\* order took a part through a trade record and the rest through the
\* cumulative amount of its order record.
C22_Witness ==
    /\ \E i \in in_flight_orders :
          /\ order[i].trade_id_set # {}
          /\ order[i].executed_amount_base > 0
          /\ order[i].executed_amount_base < order[i].amount
    /\ \E j \in Ids \ in_flight_orders :
          /\ order[j].trade_id_set # {}
          /\ order[j].executed_amount_base = order[j].amount
          /\ Len(remote[j].trades) > Cardinality(order[j].trade_id_set)
          /\ Count(j, "Completed") = 1

\* The Created events of order i after the step.
CreatedAfter(i) ==
    Cardinality({k \in DOMAIN events'[i] : events'[i][k].kind = "Created"})

\* C23: when the create request of an order is issued the order is tracked
\* without an exchange id, and it stays tracked while the request is in
\* flight, so that a cancel started then finds it and waits for the id; the
\* step that emits the Created event has bound the id of the response to the
\* tracked order, and an order has at most one Created event.
C23_TrackedBeforeCreate ==
    [][\A i \in Ids :
          /\ (create_task[i].pc # "inflight" /\ create_task'[i].pc = "inflight")
                => (i \in in_flight_orders' /\ order'[i].exchange_order_id = 0)
          /\ create_task[i].pc = "inflight" => i \in in_flight_orders
          /\ (create_task[i].pc = "inflight" /\ cancel_task.pc = "idle"
                /\ cancel_task'.order_id = i)
                => cancel_task'.pc = "wait_id"
          /\ CreatedAfter(i) > Count(i, "Created")
                => /\ create_task[i].pc = "inflight"
                   /\ i \in in_flight_orders'
                   /\ order'[i].exchange_order_id = ExchangeId(i)
                   /\ CreatedAfter(i) = 1
      ]_vars

\* A cancel that found the order while its create request was in flight is
\* still waiting for the id; the create request has returned, the id is
\* bound and the Created event is out.
C23_Witness ==
    \E i \in in_flight_orders :
        /\ cancel_task.pc = "wait_id"
        /\ cancel_task.order_id = i
        /\ create_task[i].pc = "created"
        /\ order[i].exchange_order_id = ExchangeId(i)
        /\ Count(i, "Created") = 1

\* C24: a limit submit for a trading pair that has no entry in the trading
\* rule table creates no tracked order, makes no remote create call and is
\* reported with one Failure event for its client order id.
C24_UnknownPairFails ==
    \A i \in Ids :
        (/\ Begun(i)
         /\ is_limit_type(create_task[i].order_type)
         /\ create_task[i].trading_pair \notin trading_rules) =>
            /\ i \notin in_flight_orders
            /\ ~create_task[i].called
            /\ Count(i, "Failure") = 1

\* C25: when the records of an order-status response are processed, every
\* record of a tracked order goes through the trade-delta processing whatever
\* its status: if its cumulative amount is above the executed amount of the
\* order, the order takes the difference and one Fill event of that amount
\* is emitted; otherwise nothing is emitted for the order.
C25_EveryRecordThroughDelta ==
    [][(order_status_task.pc = "fetching" /\ order_status_task'.pc # "fetching") =>
          LET msgs == ProcessedRecords(order_status_task.requested,
                                       order_status_task'.responses)
          IN \A k \in DOMAIN msgs : \A i \in Matching(Local, msgs[k].id) :
                LET delta == msgs[k].completeNumber - order[i].executed_amount_base
                IN IF delta > 0
                   THEN /\ order'[i].executed_amount_base = msgs[k].completeNumber
                        /\ FillSum(events'[i]) = FillSum(events[i]) + delta
                        /\ Len(SelectSeq(events'[i], LAMBDA e : e.kind = "Fill"))
                              = Len(SelectSeq(events[i], LAMBDA e : e.kind = "Fill")) + 1
                   ELSE /\ order'[i].executed_amount_base = order[i].executed_amount_base
                        /\ FillSum(events'[i]) = FillSum(events[i])
      ]_vars

\* C26: an order whose last_state is FILLED, CANCELLED or FAILED keeps its
\* last_state, its executed amount and its applied trade ids over every step.
C26_TerminalIsFinal ==
    [][\A i \in Ids :
          order[i].last_state \in TerminalStates =>
              /\ order'[i].last_state = order[i].last_state
              /\ order'[i].executed_amount_base = order[i].executed_amount_base
              /\ order'[i].trade_id_set = order[i].trade_id_set
      ]_vars

\* C27: an order is tracked without an exchange id when its create request
\* is issued, and over every step an exchange id that is set stays the same.
C27_ExchangeIdSetOnce ==
    [][\A i \in Ids :
          /\ (create_task[i].pc # "inflight" /\ create_task'[i].pc = "inflight")
                => order'[i].exchange_order_id = 0
          /\ order[i].exchange_order_id # 0
                => order'[i].exchange_order_id = order[i].exchange_order_id
      ]_vars

\* A restored order and a submitted order both hold their exchange ids, and
\* the submitted one has been cancelled and reported by a poll since.
C27_Witness ==
    /\ \E i \in DOMAIN saved_states :
          order[i].exchange_order_id = saved_states[i].exchange_order_id
    /\ \E j \in Ids :
          /\ create_task[j].pc = "created"
          /\ order[j].exchange_order_id = ExchangeId(j)
          /\ Count(j, "Cancelled") = 1

\* C28: the poll signal goes up only in a call of tick whose timestamp lies
\* in a later whole-second interval than that of the call before, and every
\* such call leaves it up; a wake of the status loop starts with the signal
\* up; the signal goes down only when the loop returns to waiting after its
\* three refreshes settled without an error, and it is down then; after a
\* failed wake the signal is still up when the back-off begins and when it
\* ends.
C28_TickSignalsPoll ==
    [][LET ticked == status_loop'.last_timestamp # status_loop.last_timestamp
           advanced == current_tick(status_loop'.last_timestamp)
                           > current_tick(status_loop.last_timestamp)
       IN
       /\ ticked => /\ status_loop'.last_timestamp > status_loop.last_timestamp
                    /\ status_loop'.poll_notifier
                          = (status_loop.poll_notifier \/ advanced)
                    /\ status_loop'.pc = status_loop.pc
       /\ (~status_loop.poll_notifier /\ status_loop'.poll_notifier) => ticked
       /\ (status_loop.pc = "waiting" /\ status_loop'.pc = "gathering")
             => status_loop.poll_notifier
       /\ (status_loop.poll_notifier /\ ~status_loop'.poll_notifier)
             => /\ status_loop.pc = "gathering"
                /\ status_loop'.pc = "waiting"
                /\ \A n \in SubtaskNames : subtask[n] = "done"
       /\ (status_loop.pc = "gathering" /\ status_loop'.pc = "waiting")
             => ~status_loop'.poll_notifier
       /\ (status_loop.pc = "gathering" /\ status_loop'.pc = "backoff")
             => status_loop'.poll_notifier
       /\ (status_loop.pc = "backoff" /\ status_loop'.pc = "waiting")
             => status_loop'.poll_notifier
      ]_vars

\* A wake failed and the loop backs off with the signal up; the clock has
\* called tick again since, within the interval of the call that raised the
\* signal.
C28_Witness ==
    /\ status_loop.pc = "backoff"
    /\ status_loop.poll_notifier
    /\ status_loop.last_timestamp = POLL_INTERVAL + 1
    /\ \E n \in SubtaskNames : subtask[n] = "failed"

\* C29: whenever tracking_states is read, it holds no order whose last_state
\* is FILLED, CANCELLED or FAILED, and it holds every tracked order whose
\* last_state is none of these.
C29_SnapshotNonTerminalOnly ==
    /\ \A i \in DOMAIN tracking_states :
          tracking_states[i].last_state \notin TerminalStates
    /\ \A i \in in_flight_orders :
          order[i].last_state \notin TerminalStates =>
              /\ i \in DOMAIN tracking_states
              /\ tracking_states[i] = to_json(order[i])

\* C30: a status poll that waits for the exchange id of an order, before its
\* order-detail request or while it processes the records, always ends, and
\* so does every poll: again and again neither subtask of the poll is under
\* way, which is when the next tick starts the next poll.
C30_PollWaitEnds ==
    /\ (order_status_task.pc \in {"wait_ids", "blocked"})
           ~> (order_status_task.pc = "idle")
    /\ (trade_status_task.pc = "blocked") ~> (trade_status_task.pc = "idle")
    /\ []<>(order_status_task.pc = "idle" /\ trade_status_task.pc = "idle")

\* The order-status fetch waits for the id of an order whose create request
\* was abandoned: the id is never assigned.
C30_Witness ==
    /\ order_status_task.pc = "wait_ids"
    /\ create_task[order_status_task.wait_on].pc = "interrupted"
    /\ order_status_task.wait_on \in in_flight_orders
    /\ order[order_status_task.wait_on].exchange_order_id = 0

\* C31: when an order-status poll that runs with a non-empty registry has
\* built its requests, every tracked order is in exactly one place of
\* exactly one chunk, the orders of a chunk are of one trading pair, and a
\* chunk has between one and batch_size orders.
C31_EveryOrderInOneChunk ==
    [][(order_status_task.pc = "idle" /\ order_status_task'.pc = "fetching") =>
          LET chunks == order_status_task'.chunks IN
          /\ \A i \in in_flight_orders :
                Cardinality({<<k, n>> \in (DOMAIN chunks) \X (1..batch_size) :
                                n \in DOMAIN chunks[k] /\ chunks[k][n] = i}) = 1
          /\ \A k \in DOMAIN chunks :
                /\ Len(chunks[k]) \in 1..batch_size
                /\ \A n, n2 \in DOMAIN chunks[k] :
                      order[chunks[k][n]].trading_pair
                          = order[chunks[k][n2]].trading_pair
      ]_vars

\* C32: over every interleaving of the status polls, cancel and cancel_all an
\* order has at most one terminal event: its Completed, Cancelled and Failure
\* events together are at most one.
C32_OneTerminalEvent ==
    \A i \in Ids :
        Count(i, "Completed") + Count(i, "Cancelled") + Count(i, "Failure") <= 1

\* An execution of subtask n that has not ended.
InProgress(n) == subtask[n] \in {"request", "wait_ids"}

\* C33: when the status loop starts the three subtasks of a wake, none of the
\* subtasks of an earlier wake is still in progress, so that at most one
\* execution of each is under way; this also holds for the wake that retries
\* after a failed wake and its back-off.
C33_WakesDoNotOverlap ==
    [][(status_loop.pc = "waiting" /\ status_loop'.pc = "gathering") =>
          \A n \in SubtaskNames : ~InProgress(n)
      ]_vars

\* The wake that retries after a failed one: the signal was raised once, the
\* balances were refreshed by the wake that failed, and the balance request
\* of the retry is out.
C33_Witness ==
    /\ status_loop.pc = "gathering"
    /\ status_loop.last_timestamp < 2 * POLL_INTERVAL
    /\ subtask["balances"] = "request"
    /\ account_balances # {}

\* C34: a call of stop_network returns without an exception, and after it
\* every handle is None and neither loop nor user-stream task is running,
\* whatever trading_required is and whether or not start_network ran before.
C34_StopNetworkClean ==
    network.stop_network # "none" =>
        /\ network.stop_network = "returned"
        /\ \A t \in TaskNames : network.handle[t] = "None"
        /\ rules_loop.pc \in {"none", "cancelled"}
        /\ status_loop.pc \in {"none", "cancelled"}
        /\ \A t \in UserStreamTasks : network.user_stream[t] # "running"
====
